---- MODULE Spec2Model ----
(***************************************************************************)
(* Jobflare (src/job_search/jobflare.py): the interactive session loop,    *)
(* the profile store and the background link-validation worker.            *)
(*                                                                         *)
(* Text is modelled as sequences of one-character strings, so that the     *)
(* join / strip / splitlines conversions of the code are computed and not  *)
(* assumed.  The interactive thread takes one step per render and one per  *)
(* handler call; the validation worker takes one step per statement that   *)
(* touches shared state (and one per network request or file write).       *)
(*                                                                         *)
(* Pomodoro (src/python/pomodoro): the timer state machine PomodoroTimer   *)
(* and the handlers of PomodoroApp that drive it, one step per handler.    *)
(***************************************************************************)
EXTENDS Integers, Sequences, FiniteSets, TLC

----------------------------------------------------------------------------
(* Bounds of the model *)

\* number of profile directories found by load_profiles
NumProfiles == 2
\* number of validation runs one session may start
MaxRuns == 2
\* number of times one session may run the fetch collaborator
MaxFetches == 1
\* number of lines of a jobs.txt written while the session runs
MaxFileLines == 3
\* number of profile directories of the session with more profiles than
\* there are companies to select
ManyProfiles == 46
\* largest cycle_size a timer is constructed with
MaxCycleSize == 3
\* number of phases an observer of the timer writes down
MaxVisited == 7

----------------------------------------------------------------------------
(* Text helpers: Python str operations on sequences of characters *)

NL == "\n"
CR == "\r"
\* Python None, as a value comparable with text
None == <<"None">>

Digits == {"0", "1", "2", "3", "4", "5", "6", "7", "8", "9"}
Letters == {"a", "b", "c", "d", "e", "f", "g", "h", "i", "j", "k", "l", "m",
            "n", "o", "p", "q", "r", "s", "t", "u", "v", "w", "x", "y", "z"}

\* str.isspace for the characters that occur in the model
IsSpace(ch) == ch \in {" ", "\t", NL, CR}

Min(a, b) == IF a < b THEN a ELSE b
Max(a, b) == IF a > b THEN a ELSE b

RECURSIVE LStrip(_)
LStrip(s) == IF s # <<>> /\ IsSpace(Head(s)) THEN LStrip(Tail(s)) ELSE s

RECURSIVE RStrip(_)
RStrip(s) ==
    IF s # <<>> /\ IsSpace(s[Len(s)]) THEN RStrip(SubSeq(s, 1, Len(s) - 1)) ELSE s

\* str.strip()
Strip(s) == RStrip(LStrip(s))

\* str.replace(ch, "")
Remove(s, ch) == SelectSeq(s, LAMBDA c : c # ch)

\* str.find(ch): 0-based index of the first occurrence, -1 when absent
Find(s, ch) ==
    IF \E i \in 1..Len(s) : s[i] = ch
    THEN (CHOOSE i \in 1..Len(s) : s[i] = ch /\ \A j \in 1..(i - 1) : s[j] # ch) - 1
    ELSE -1

\* sep.join(parts)
RECURSIVE Join(_, _)
Join(parts, sep) ==
    IF parts = <<>> THEN <<>>
    ELSE IF Len(parts) = 1 THEN parts[1]
    ELSE parts[1] \o sep \o Join(Tail(parts), sep)

\* str.splitlines() for text whose only line break is "\n"
RECURSIVE SplitLines(_)
SplitLines(t) ==
    IF t = <<>> THEN <<>>
    ELSE LET k == Find(t, NL) IN
         IF k = -1 THEN <<t>>
         ELSE <<SubSeq(t, 1, k)>> \o SplitLines(SubSeq(t, k + 2, Len(t)))

\* str(n) for a natural number
DigitOf(d) ==
    CASE d = 0 -> "0" [] d = 1 -> "1" [] d = 2 -> "2" [] d = 3 -> "3"
      [] d = 4 -> "4" [] d = 5 -> "5" [] d = 6 -> "6" [] d = 7 -> "7"
      [] d = 8 -> "8" [] d = 9 -> "9"

RECURSIVE DecStr(_)
DecStr(n) == IF n < 10 THEN <<DigitOf(n)>> ELSE DecStr(n \div 10) \o <<DigitOf(n % 10)>>

----------------------------------------------------------------------------
(* URL handling *)

\* urllib.parse.scheme_chars
SchemeChars == Letters \cup Digits \cup {"+", "-", "."}

\* urllib.parse.urlsplit, the scheme and netloc it returns.  The scheme is
\* the text before the first ":" when that text starts with a letter and has
\* only scheme characters; the netloc is what follows a leading "//" up to
\* the first of "/", "?" and "#".
UrlParse(line) ==
    LET i == Find(line, ":")
        hasScheme == /\ i > 0
                     /\ line[1] \in Letters
                     /\ \A j \in 1..i : line[j] \in SchemeChars
        scheme == IF hasScheme THEN SubSeq(line, 1, i) ELSE <<>>
        rest == IF hasScheme THEN SubSeq(line, i + 2, Len(line)) ELSE line
        isNet == Len(rest) >= 2 /\ rest[1] = "/" /\ rest[2] = "/"
        body == SubSeq(rest, 3, Len(rest))
        stops == {k \in 1..Len(body) : body[k] \in {"/", "?", "#"}}
        netEnd == IF stops = {} THEN Len(body)
                  ELSE (CHOOSE k \in stops : \A m \in stops : k <= m) - 1
        netloc == IF isNet THEN SubSeq(body, 1, netEnd) ELSE <<>>
        has(ch) == \E k \in 1..Len(netloc) : netloc[k] = ch
    IN [scheme |-> scheme, netloc |-> netloc,
        \* ValueError("Invalid IPv6 URL"): one bracket without the other
        raises |-> has("[") # has("]")]

HTTPS_PREFIX == <<"h", "t", "t", "p", "s", ":", "/", "/">>
SCHEME_HTTP == <<"h", "t", "t", "p">>
SCHEME_HTTPS == <<"h", "t", "t", "p", "s">>

\* the ValueError urlparse raises, which normalize_url does not catch
ValueError == <<"ValueError">>

\* normalize_url: None, the canonical URL, or ValueError when it raises
normalize_url(raw) ==
    LET line == Remove(Strip(raw), CR) IN
    IF line = <<>> \/ Head(line) = "#" THEN None
    ELSE IF \E k \in 1..Len(line) : IsSpace(line[k]) THEN None
    ELSE IF UrlParse(line).raises THEN ValueError
    ELSE LET line2 == IF UrlParse(line).scheme = <<>> THEN HTTPS_PREFIX \o line ELSE line
             parsed == UrlParse(line2)
         IN IF parsed.raises THEN ValueError
            ELSE IF parsed.scheme \notin {SCHEME_HTTP, SCHEME_HTTPS} THEN None
            ELSE IF parsed.netloc = <<>> THEN None
            ELSE line2

\* read_urls over the lines of a jobs.txt; a missing file reads as no lines.
\* raised: normalize_url raised at some line and the exception left
\* read_urls, the other fields are then the locals at that moment
\* one turn of the loop of read_urls: r holds the locals before the turn
read_urls_line(r, raw, url) ==
    IF r.raised THEN r
    ELSE IF url = ValueError THEN [r EXCEPT !.total = @ + 1, !.raised = TRUE]
    ELSE [urls |-> IF url = None THEN r.urls ELSE Append(r.urls, url),
          skipped |-> IF url = None /\ Strip(raw) # <<>> THEN r.skipped + 1 ELSE r.skipped,
          total |-> r.total + 1,
          raised |-> FALSE]

RECURSIVE read_urls(_)
read_urls(lines) ==
    IF lines = <<>> THEN [urls |-> <<>>, skipped |-> 0, total |-> 0, raised |-> FALSE]
    ELSE LET raw == lines[Len(lines)]
         IN CHOOSE after \in {read_urls_line(r, raw, url) :
                                 r \in {read_urls(SubSeq(lines, 1, Len(lines) - 1))},
                                 url \in {normalize_url(raw)}} : TRUE

----------------------------------------------------------------------------
(* Constants of the program *)

DEFAULT_TAB_LIMIT == 10
\* DEFAULT_DELAY = 0.15 seconds, kept in milliseconds
DEFAULT_DELAY_MS == 150
\* upper clamp of the delay prompt, in milliseconds
MAX_DELAY_MS == 5000
\* len(DEFAULT_COMPANIES)
NumCompanies == 45
\* DEFAULT_COMPANIES, each company named by its position in the list
DEFAULT_COMPANIES == [n \in 1..NumCompanies |-> n]
COMPANY_BATCH_SIZE == 10

----------------------------------------------------------------------------
(* The files and URLs of the modelled session *)

Profiles == 0..(NumProfiles - 1)

URL_A == <<"h", "t", "t", "p", ":", "/", "/", "a">>
URL_B == <<"h", "t", "t", "p", "s", ":", "/", "/", "b">>
\* accepted by normalize_url, rejected by httpx (port is not a number)
URL_X == <<"h", "t", "t", "p", ":", "/", "/", "a", ":", "x">>
\* where the redirect of URL_B ends
URL_R == <<"h", "t", "t", "p", ":", "/", "/", "r">>
RAW_B == <<"b">>
BAD_LINE == <<" ", "a", " ", "b">>
COMMENT == <<"#", "c">>
BLANK == <<>>
\* "http://[a": an opening bracket in the host without the closing one
BRACKET == <<"h", "t", "t", "p", ":", "/", "/", "[", "a">>

\* a file that does not exist
NoFile == <<"NoFile">>

\* the NUL character (chr(0))
NUL == "\\0"
\* accepted by normalize_url; no argument of a subprocess may hold a NUL
URL_N == <<"h", "t", "t", "p", ":", "/", "/", "n", NUL>>
\* eleven URLs, one more than DEFAULT_TAB_LIMIT
ElevenUrls == [k \in 1..11 |-> URL_A \o <<"/">> \o DecStr(k)]

\* jobs.txt of each profile directory when the session starts
InitialJobs(p) ==
    CASE p = 0 -> <<URL_A, BLANK, BAD_LINE, URL_B>>
      [] p = 1 -> <<COMMENT, URL_X>>
      [] p = 2 -> <<URL_A, URL_N, URL_B>>
      [] p = 3 -> ElevenUrls
      [] OTHER -> <<RAW_B>>

\* search_specs.json exists in the profile directory
HasSearchSpecs(p) == p # 1

\* keywords and locations of the sources of search_specs.json, in file order
SpecsKeywords(p) == IF HasSearchSpecs(p) THEN <<"cyber", "security", "cyber">> ELSE <<>>
SpecsLocations(p) == IF HasSearchSpecs(p) THEN <<"remote">> ELSE <<>>

\* URL lists the fetch collaborator may write
FetchedLists == {<<URL_X, URL_A>>}

\* subprocess.run raises ValueError ("embedded null byte") when an argument
\* holds a NUL
SubprocessRejects(url) == \E k \in 1..Len(url) : url[k] = NUL

\* httpx.URL raises InvalidURL when the port is not a number
HttpxRejects(url) ==
    \E k \in 6..(Len(url) - 1) : url[k] = ":" /\ url[k + 1] \notin Digits \cup {"/"}

----------------------------------------------------------------------------
(* State *)

VARIABLES
    \* AppState: navigation
    screen, prev_screen, profile_idx, selection_idx, message, tab_limit, delay,
    \* main loop: the current screen has been rendered and waits for a key
    rendered,
    \* AppState.profiles: per profile urls, url_count, search_specs
    profiles,
    \* the file system: jobs.txt (lines), jobs_validated.txt, jobs_report.txt
    jobs_txt, validated_txt, report_txt,
    \* AppState: validation
    validation_cancel, validation_status, validation_total,
    validation_completed, validation_valid, validation_failed, validation_error,
    \* the validation threads started so far, in start order
    workers,
    \* the URLs handed to open_in_chrome by the last handle_opening
    open_calls,
    \* number of runs of the fetch collaborator
    fetches,
    \* AppState: AI prompt builder
    ai_keywords, ai_locations, ai_companies, ai_company_selected,
    ai_company_batch_idx, ai_input_buffer, ai_prompt,
    \* PomodoroTimer: what __init__ keeps of its arguments (work_secs,
    \* short_secs, long_secs, cycle_size, auto_break, auto_work, and whether
    \* an on_phase_complete callback was given)
    config,
    \* PomodoroTimer: _phase, _status, _remaining, _completed_in_cycle
    timer,
    \* the value returned by the last tick()
    tick_result,
    \* the (old, new) pairs the timer's on_phase_complete received, and those
    \* the on_phase_complete_callback of PomodoroApp received, during the
    \* last operation
    phase_complete_calls, app_calls,
    \* observer: the (phase, completed_in_cycle) pairs the timer has gone
    \* through since construction, kept while next_phase made every phase
    \* change and for MaxVisited phases; <<>> afterwards
    visited,
    \* observer: ticks of the running timer in the current phase
    ticks

navVars == <<screen, prev_screen, profile_idx, selection_idx, message, tab_limit, delay>>
fileVars == <<jobs_txt, validated_txt, report_txt>>
valVars == <<validation_cancel, validation_status, validation_total,
             validation_completed, validation_valid, validation_failed, validation_error>>
aiVars == <<ai_keywords, ai_locations, ai_companies, ai_company_selected,
            ai_company_batch_idx, ai_input_buffer, ai_prompt>>
jobVars == <<navVars, rendered, profiles, fileVars, valVars, workers, open_calls, fetches, aiVars>>
timerVars == <<config, timer, tick_result, phase_complete_calls, app_calls, visited, ticks>>
vars == <<jobVars, timerVars>>

\* Profile.reload_urls / Profile.from_directory
reload_urls(p, lines) ==
    LET r == read_urls(lines) IN
    [urls |-> r.urls, url_count |-> Len(r.urls), search_specs |-> HasSearchSpecs(p)]

\* AppState() followed by load_profiles over the profile directories dirs, as
\* main() leaves it before the loop
SessionStart(dirs) ==
    /\ screen = "MAIN_MENU"
    /\ prev_screen = "MAIN_MENU"
    /\ profile_idx = 0
    /\ selection_idx = 0
    /\ message = <<>>
    /\ tab_limit = DEFAULT_TAB_LIMIT
    /\ delay = DEFAULT_DELAY_MS
    /\ rendered = FALSE
    /\ jobs_txt = [p \in dirs |-> InitialJobs(p)]
    /\ validated_txt = [p \in dirs |-> NoFile]
    /\ report_txt = [p \in dirs |-> NoFile]
    /\ profiles = [p \in dirs |-> reload_urls(p, InitialJobs(p))]
    /\ validation_cancel = FALSE
    /\ validation_status = "idle"
    /\ validation_total = 0
    /\ validation_completed = 0
    /\ validation_valid = 0
    /\ validation_failed = 0
    /\ validation_error = ""
    /\ workers = <<>>
    /\ open_calls = <<>>
    /\ fetches = 0
    /\ ai_keywords = <<>>
    /\ ai_locations = <<>>
    /\ ai_companies = <<>>
    /\ ai_company_selected = <<>>
    /\ ai_company_batch_idx = 0
    /\ ai_input_buffer = ""
    /\ ai_prompt = <<>>

\* minutes to seconds, as in __init__
SecsPerMin == 60

\* the fields __init__ sets from its arguments
TimerConfig(work_mins, short_mins, long_mins, cycle_size, auto_break, auto_work, callback) ==
    [work_secs |-> work_mins * SecsPerMin,
     short_secs |-> short_mins * SecsPerMin,
     long_secs |-> long_mins * SecsPerMin,
     cycle_size |-> cycle_size,
     auto_break |-> auto_break,
     auto_work |-> auto_work,
     on_phase_complete |-> callback]

\* the state __init__ leaves the timer in
PomodoroTimer(c) ==
    [phase |-> "WORK", status |-> "PAUSED", remaining |-> c.work_secs,
     completed_in_cycle |-> 0]

\* a timer constructed with one of the configurations
TimerConstructed(configs) ==
    /\ config \in configs
    /\ timer = PomodoroTimer(config)
    /\ tick_result = FALSE
    /\ phase_complete_calls = <<>>
    /\ app_calls = <<>>
    /\ visited = <<<<"WORK", 0>>>>
    /\ ticks = 0

\* PomodoroTimer() with the default arguments
DefaultTimer == TimerConfig(25, 5, 15, 4, TRUE, FALSE, FALSE)

Init == SessionStart(Profiles) /\ TimerConstructed({DefaultTimer})

current_profile == profiles[profile_idx]

----------------------------------------------------------------------------
(* The interactive thread: main() renders the current screen, reads a key  *)
(* and calls the screen's handler                                          *)

\* keys read_key can return that the handlers tell apart
Keys == {"o", "f", "g", "v", "p", "q", "j", "k", "up", "down", "enter", "b",
         "esc", "c", "x"}

Msg(kind, arg) == <<kind, arg>>

\* render_main_menu / render_profile_select: the only state they change is
\* the message, which render_message clears after showing it
Render ==
    /\ screen \in {"MAIN_MENU", "PROFILE_SELECT"}
    /\ ~rendered
    /\ rendered' = TRUE
    /\ message' = <<>>
    /\ UNCHANGED <<screen, prev_screen, profile_idx, selection_idx, tab_limit, delay>>
    /\ UNCHANGED <<profiles, fileVars, valVars, workers, open_calls, fetches, aiVars>>
    /\ UNCHANGED timerVars

\* the list without repeated entries, first occurrences kept
RECURSIVE Dedup(_)
Dedup(s) ==
    IF s = <<>> THEN <<>>
    ELSE LET d == Dedup(SubSeq(s, 1, Len(s) - 1)) IN
         IF \E k \in 1..Len(d) : d[k] = s[Len(s)] THEN d ELSE Append(d, s[Len(s)])

\* the thread object start_validation creates.  History fields, read by no
\* action: pre_validated and pre_report are the artifacts as they were when
\* the run started, wrote_* tell whether this run has written them,
\* cancel_at is validation_completed when 'c' was first pressed during the
\* run (-1 before that), finals[k] is the ok_url the probes of the k-th URL
\* ended with (None for a URL classified failed)
NewWorker(p) ==
    [pc |-> "begin", profile |-> p, urls |-> <<>>, validated |-> <<>>,
     failed |-> <<>>, i |-> 0, url |-> None, exc |-> "",
     pre_validated |-> validated_txt[p], pre_report |-> report_txt[p],
     wrote_validated |-> FALSE, wrote_report |-> FALSE, cancel_at |-> -1,
     finals |-> <<>>]

\* a thread that has exited: nothing of it is left
Gone ==
    [pc |-> "finished", profile |-> 0, urls |-> <<>>, validated |-> <<>>,
     failed |-> <<>>, i |-> 0, url |-> None, exc |-> "",
     pre_validated |-> NoFile, pre_report |-> NoFile,
     wrote_validated |-> FALSE, wrote_report |-> FALSE, cancel_at |-> -1,
     finals |-> <<>>]

\* the thread of the latest run keeps its history fields after it exits,
\* until the next run is started
Exited(w) ==
    IF w = Len(workers) THEN [workers[w] EXCEPT !.pc = "finished"] ELSE Gone

\* start_validation without line 525: the cancel flag is left as it was
start_validation_KeepsCancel ==
    /\ validation_cancel' = validation_cancel
    /\ validation_status' = "running"
    /\ validation_total' = Len(current_profile.urls)
    /\ validation_completed' = 0
    /\ validation_valid' = 0
    /\ validation_failed' = 0
    /\ validation_error' = ""
    /\ workers' = Append([k \in 1..Len(workers) |->
                              IF workers[k].pc = "finished" THEN Gone ELSE workers[k]],
                          NewWorker(profile_idx))

\* start_validation, for a profile that has URLs
start_validation ==
    /\ validation_cancel' = FALSE
    /\ validation_status' = "running"
    /\ validation_total' = Len(current_profile.urls)
    /\ validation_completed' = 0
    /\ validation_valid' = 0
    /\ validation_failed' = 0
    /\ validation_error' = ""
    /\ workers' = Append([k \in 1..Len(workers) |->
                              IF workers[k].pc = "finished" THEN Gone ELSE workers[k]],
                          NewWorker(profile_idx))

HandleMainMenu(key) ==
    /\ screen = "MAIN_MENU"
    /\ rendered
    /\ key = "v" /\ current_profile.urls # <<>> => Len(workers) < MaxRuns
    /\ key = "f" /\ current_profile.search_specs => fetches < MaxFetches
    /\ rendered' = FALSE
    /\ UNCHANGED <<profile_idx, tab_limit, delay, profiles, fileVars, open_calls, fetches>>
    /\ IF key = "o" THEN
            /\ IF current_profile.urls = <<>>
               THEN message' = Msg("No URLs to open", "") /\ UNCHANGED <<screen, prev_screen>>
               ELSE prev_screen' = "MAIN_MENU" /\ screen' = "OPEN_SETTINGS" /\ UNCHANGED message
            /\ UNCHANGED <<selection_idx, valVars, workers, aiVars>>
       ELSE IF key = "f" THEN
            /\ IF ~current_profile.search_specs
               THEN message' = Msg("No search_specs.json in profile", "")
                    /\ UNCHANGED <<screen, prev_screen>>
               ELSE prev_screen' = "MAIN_MENU" /\ screen' = "FETCHING" /\ UNCHANGED message
            /\ UNCHANGED <<selection_idx, valVars, workers, aiVars>>
       ELSE IF key = "g" THEN
            \* init_ai_prompt_builder
            /\ ai_keywords' = Dedup(SpecsKeywords(profile_idx))
            /\ ai_locations' = Dedup(SpecsLocations(profile_idx))
            /\ ai_companies' = DEFAULT_COMPANIES
            /\ ai_company_selected' = [n \in 1..NumCompanies |-> FALSE]
            /\ ai_company_batch_idx' = 0
            /\ ai_input_buffer' = ""
            /\ UNCHANGED ai_prompt
            /\ prev_screen' = "MAIN_MENU"
            /\ screen' = "AI_PROMPT_KEYWORDS"
            /\ UNCHANGED <<message, selection_idx, valVars, workers>>
       ELSE IF key = "v" THEN
            /\ IF current_profile.urls = <<>>
               THEN /\ message' = Msg("No URLs to validate", "")
                    /\ UNCHANGED <<screen, prev_screen, valVars, workers>>
               ELSE /\ prev_screen' = "MAIN_MENU"
                    /\ screen' = "VALIDATING"
                    /\ start_validation
                    /\ UNCHANGED message
            /\ UNCHANGED <<selection_idx, aiVars>>
       ELSE IF key = "p" THEN
            /\ selection_idx' = profile_idx
            /\ prev_screen' = "MAIN_MENU"
            /\ screen' = "PROFILE_SELECT"
            /\ UNCHANGED <<message, valVars, workers, aiVars>>
       ELSE IF key = "q" THEN
            /\ screen' = "QUIT"
            /\ UNCHANGED <<prev_screen, message, selection_idx, valVars, workers, aiVars>>
       ELSE UNCHANGED <<screen, prev_screen, message, selection_idx, valVars, workers, aiVars>>
    /\ UNCHANGED timerVars

HandleProfileSelect(key) ==
    /\ screen = "PROFILE_SELECT"
    /\ rendered
    /\ rendered' = FALSE
    /\ UNCHANGED <<prev_screen, message, tab_limit, delay, fileVars, valVars, workers,
                   open_calls, fetches, aiVars>>
    /\ IF key \in {"j", "down"} THEN
            /\ selection_idx' = Min(selection_idx + 1, Cardinality(DOMAIN profiles) - 1)
            /\ UNCHANGED <<screen, profile_idx, profiles>>
       ELSE IF key \in {"k", "up"} THEN
            /\ selection_idx' = Max(selection_idx - 1, 0)
            /\ UNCHANGED <<screen, profile_idx, profiles>>
       ELSE IF key = "enter" THEN
            /\ profile_idx' = selection_idx
            /\ IF read_urls(jobs_txt[selection_idx]).raised
               THEN \* the exception leaves reload_urls and main()
                    screen' = "ABORTED" /\ UNCHANGED profiles
               ELSE /\ profiles' = [profiles EXCEPT
                          ![selection_idx] = reload_urls(selection_idx, jobs_txt[selection_idx])]
                    /\ screen' = "MAIN_MENU"
            /\ UNCHANGED selection_idx
       ELSE IF key \in {"b", "esc"} THEN
            /\ screen' = "MAIN_MENU"
            /\ UNCHANGED <<selection_idx, profile_idx, profiles>>
       ELSE IF key = "q" THEN
            /\ screen' = "QUIT"
            /\ UNCHANGED <<selection_idx, profile_idx, profiles>>
       ELSE UNCHANGED <<screen, selection_idx, profile_idx, profiles>>
    /\ UNCHANGED timerVars

\* what the user does at a read_number prompt: leave with b / esc, press
\* enter on an empty buffer, or type a number and press enter
BACK == -1
EMPTY == -2
NumberEntries == {BACK, EMPTY, 0, 1, 2, 5000, 6000}

\* read_number that returns the number as typed
read_number_AsTyped(entry, default, max_val) ==
    IF entry = BACK THEN -1
    ELSE IF entry = EMPTY THEN default
    ELSE entry

read_number(entry, default, max_val) ==
    IF entry = BACK THEN -1
    ELSE IF entry = EMPTY THEN default
    ELSE Min(Max(1, entry), max_val)

HandleOpenSettings(e1, e2) ==
    /\ screen = "OPEN_SETTINGS"
    /\ LET max_urls == Len(current_profile.urls)
           limit == read_number(e1, Min(DEFAULT_TAB_LIMIT, max_urls), max_urls)
           delay_raw == read_number(e2, DEFAULT_DELAY_MS, MAX_DELAY_MS)
       IN IF limit = -1 THEN
               /\ screen' = "MAIN_MENU"
               /\ UNCHANGED <<tab_limit, delay>>
          ELSE IF delay_raw = -1 THEN
               /\ tab_limit' = limit
               /\ screen' = "MAIN_MENU"
               /\ UNCHANGED delay
          ELSE /\ tab_limit' = limit
               /\ delay' = delay_raw
               /\ screen' = "OPENING"
    /\ UNCHANGED <<prev_screen, profile_idx, selection_idx, message, rendered, profiles,
                   fileVars, valVars, workers, open_calls, fetches, aiVars>>
    /\ UNCHANGED timerVars

\* lines 1038-1045: open_in_chrome is called for the URLs in order.  A call
\* whose osascript exits non-zero (its position is in failing) raises
\* CalledProcessError, which is caught and passed over; a call
\* subprocess.run rejects raises ValueError, which nothing catches.  The
\* result is the list of URLs open_in_chrome was called with and whether an
\* exception left the loop.
RECURSIVE OpenAll(_, _, _)
OpenAll(urls, failing, calls) ==
    IF Len(calls) = Len(urls) THEN [calls |-> calls, raised |-> FALSE]
    ELSE LET url == urls[Len(calls) + 1] IN
         IF SubprocessRejects(url) THEN [calls |-> Append(calls, url), raised |-> TRUE]
         ELSE IF Len(calls) + 1 \in failing
              THEN \* except subprocess.CalledProcessError: pass
                   OpenAll(urls, failing, Append(calls, url))
         ELSE OpenAll(urls, failing, Append(calls, url))

\* the sets of positions whose open invocation exits non-zero
FailingSets == {{}, {1}, {2}, {1, 2, 3}}

\* handle_opening.  An exception nothing catches leaves main(): the session
\* is over without a further screen, which screen = "ABORTED" stands for
HandleOpening(failing) ==
    /\ screen = "OPENING"
    /\ LET urls == SubSeq(current_profile.urls, 1, Min(tab_limit, Len(current_profile.urls)))
           r == OpenAll(urls, failing, <<>>)
       IN /\ open_calls' = r.calls
          /\ IF r.raised
             THEN screen' = "ABORTED" /\ UNCHANGED message
             ELSE /\ message' = Msg("Opened tabs", ToString(Len(urls)))
                  /\ screen' = "MAIN_MENU"
    /\ UNCHANGED <<prev_screen, profile_idx, selection_idx, tab_limit, delay, rendered,
                   profiles, fileVars, valVars, workers, fetches, aiVars>>
    /\ UNCHANGED timerVars

\* handle_validating whose back keys leave the screen during a run as well
HandleValidating_BackAlways(key) ==
    /\ screen = "VALIDATING"
    /\ IF validation_status = "running" THEN
            /\ validation_cancel' = IF key = "c" THEN TRUE ELSE validation_cancel
            /\ workers' = IF key = "c" /\ workers[Len(workers)].cancel_at = -1
                          THEN [workers EXCEPT ![Len(workers)].cancel_at = validation_completed]
                          ELSE workers
            /\ screen' = IF key \in {"b", "esc", "enter"} THEN "MAIN_MENU" ELSE screen
       ELSE /\ screen' = IF key \in {"b", "esc", "enter"} THEN "MAIN_MENU" ELSE screen
            /\ UNCHANGED <<validation_cancel, workers>>
    /\ UNCHANGED <<prev_screen, profile_idx, selection_idx, message, tab_limit, delay,
                   rendered, profiles, fileVars, validation_status, validation_total,
                   validation_completed, validation_valid, validation_failed,
                   validation_error, open_calls, fetches, aiVars>>
    /\ UNCHANGED timerVars

HandleValidating(key) ==
    /\ screen = "VALIDATING"
    /\ IF validation_status = "running" THEN
            /\ validation_cancel' = IF key = "c" THEN TRUE ELSE validation_cancel
            /\ workers' = IF key = "c" /\ workers[Len(workers)].cancel_at = -1
                          THEN [workers EXCEPT ![Len(workers)].cancel_at = validation_completed]
                          ELSE workers
            /\ UNCHANGED screen
       ELSE /\ screen' = IF key \in {"b", "esc", "enter"} THEN "MAIN_MENU" ELSE screen
            /\ UNCHANGED <<validation_cancel, workers>>
    /\ UNCHANGED <<prev_screen, profile_idx, selection_idx, message, tab_limit, delay,
                   rendered, profiles, fileVars, validation_status, validation_total,
                   validation_completed, validation_valid, validation_failed,
                   validation_error, open_calls, fetches, aiVars>>
    /\ UNCHANGED timerVars

\* how a run of fetch_jobs.py can end
FetchOutcomes == {"wrote", "nonzero", "nourls", "timeout", "exception"}

\* handle_fetching with fetch_jobs_for_profile; on "wrote" the collaborator
\* has replaced jobs.txt by the list it found
\* handle_fetching that reports nothing when the fetch fails
HandleFetching_SilentFailure(outcome, list) ==
    /\ screen = "FETCHING"
    /\ fetches' = fetches + 1
    /\ IF outcome = "wrote" THEN
            /\ jobs_txt' = [jobs_txt EXCEPT ![profile_idx] = list]
            /\ IF read_urls(list).raised
               THEN \* the exception leaves reload_urls and main()
                    screen' = "ABORTED" /\ UNCHANGED <<profiles, message>>
               ELSE /\ profiles' = [profiles EXCEPT
                          ![profile_idx] = reload_urls(profile_idx, list)]
                    /\ message' = Msg("Fetched jobs", ToString(Len(list)))
                    /\ screen' = "MAIN_MENU"
       ELSE /\ UNCHANGED <<message, jobs_txt, profiles>>
            /\ screen' = "MAIN_MENU"
    /\ UNCHANGED <<prev_screen, profile_idx, selection_idx, tab_limit, delay, rendered,
                   validated_txt, report_txt, valVars, workers, open_calls, aiVars>>
    /\ UNCHANGED timerVars

HandleFetching(outcome, list) ==
    /\ screen = "FETCHING"
    /\ fetches' = fetches + 1
    /\ IF outcome = "wrote" THEN
            /\ jobs_txt' = [jobs_txt EXCEPT ![profile_idx] = list]
            /\ IF read_urls(list).raised
               THEN \* the exception leaves reload_urls and main()
                    screen' = "ABORTED" /\ UNCHANGED <<profiles, message>>
               ELSE /\ profiles' = [profiles EXCEPT
                          ![profile_idx] = reload_urls(profile_idx, list)]
                    /\ message' = Msg("Fetched jobs", ToString(Len(list)))
                    /\ screen' = "MAIN_MENU"
       ELSE /\ message' = Msg("Fetch failed", outcome)
            /\ UNCHANGED <<jobs_txt, profiles>>
            /\ screen' = "MAIN_MENU"
    /\ UNCHANGED <<prev_screen, profile_idx, selection_idx, tab_limit, delay, rendered,
                   validated_txt, report_txt, valVars, workers, open_calls, aiVars>>
    /\ UNCHANGED timerVars

----------------------------------------------------------------------------
(* The AI prompt builder: keywords, locations, company selection, display *)

\* what the user does at a read_text_input prompt: esc (cancelled), or a
\* text ended by enter, given by its comma-separated pieces after strip()
\* ("" for a piece of blanks only)
TextEntries ==
    {[cancelled |-> TRUE, pieces |-> <<>>],
     [cancelled |-> FALSE, pieces |-> <<>>],
     [cancelled |-> FALSE, pieces |-> <<"ai", "", "cyber">>]}

\* the entries made at the location prompt in the sessions explored
LocationEntries ==
    {[cancelled |-> TRUE, pieces |-> <<>>],
     [cancelled |-> FALSE, pieces |-> <<"remote", "">>]}

\* for piece in text.split(","): append the piece when it is neither empty
\* nor in the list already
RECURSIVE AddPieces(_, _)
AddPieces(list, pieces) ==
    IF pieces = <<>> THEN list
    ELSE LET kw == Head(pieces) IN
         AddPieces(IF kw # "" /\ ~(\E k \in 1..Len(list) : list[k] = kw)
                   THEN Append(list, kw) ELSE list,
                   Tail(pieces))

\* generate_ai_prompt: the prompt is determined by its three arguments
generate_ai_prompt(keywords, locations, companies) == <<keywords, locations, companies>>

\* the keys the AI screens tell apart, and one key ("x") none of them knows
AiKeys == {"a", "c", "n", "b", "esc", "e", "enter", "j", "k", "down", "up",
           "<", ">", ",", ".", "left", "right", " ", "1", "0", "x"}

\* keys pressed in the sessions explored with the prompt builder: all of
\* the above but the keys that toggle a single company
AiSessionKeys == AiKeys \ {" ", "1", "0"}

\* keys pressed on the main menu and the profile list in those sessions
AiMenuKeys == {"g", "p", "q", "j", "k", "up", "down", "enter", "b", "esc", "x"}

HandleAiKeywords(key, entry) ==
    /\ screen = "AI_PROMPT_KEYWORDS"
    /\ IF key = "a" THEN
            /\ ai_keywords' = IF ~entry.cancelled /\ entry.pieces # <<>>
                              THEN AddPieces(ai_keywords, entry.pieces)
                              ELSE ai_keywords
            /\ UNCHANGED screen
       ELSE IF key = "c" THEN
            /\ ai_keywords' = <<>>
            /\ UNCHANGED screen
       ELSE IF key = "n" THEN
            /\ screen' = "AI_PROMPT_LOCATIONS"
            /\ UNCHANGED ai_keywords
       ELSE IF key \in {"b", "esc"} THEN
            /\ screen' = "MAIN_MENU"
            /\ UNCHANGED ai_keywords
       ELSE UNCHANGED <<screen, ai_keywords>>
    /\ UNCHANGED <<prev_screen, profile_idx, selection_idx, message, tab_limit, delay,
                   rendered, profiles, fileVars, valVars, workers, open_calls, fetches,
                   ai_locations, ai_companies, ai_company_selected,
                   ai_company_batch_idx, ai_input_buffer, ai_prompt>>
    /\ UNCHANGED timerVars

HandleAiLocations(key, entry) ==
    /\ screen = "AI_PROMPT_LOCATIONS"
    /\ IF key = "a" THEN
            /\ ai_locations' = IF ~entry.cancelled /\ entry.pieces # <<>>
                               THEN AddPieces(ai_locations, entry.pieces)
                               ELSE ai_locations
            /\ UNCHANGED screen
       ELSE IF key = "c" THEN
            /\ ai_locations' = <<>>
            /\ UNCHANGED screen
       ELSE IF key = "n" THEN
            /\ screen' = "AI_PROMPT_COMPANIES"
            /\ UNCHANGED ai_locations
       ELSE IF key \in {"b", "esc"} THEN
            /\ screen' = "AI_PROMPT_KEYWORDS"
            /\ UNCHANGED ai_locations
       ELSE UNCHANGED <<screen, ai_locations>>
    /\ UNCHANGED <<prev_screen, profile_idx, selection_idx, message, tab_limit, delay,
                   rendered, profiles, fileVars, valVars, workers, open_calls, fetches,
                   ai_keywords, ai_companies, ai_company_selected,
                   ai_company_batch_idx, ai_input_buffer, ai_prompt>>
    /\ UNCHANGED timerVars

\* int(key) for a digit key
DigitVal(key) == CHOOSE d \in 0..9 : DigitOf(d) = key

\* the flag at 0-based index idx negated
Toggled(selected, idx) == [selected EXCEPT ![idx + 1] = ~@]

\* the companies whose flag is set, in list order
SelectedCompanies ==
    LET F[i \in 0..Len(ai_companies)] ==
            IF i = 0 THEN <<>>
            ELSE IF ai_company_selected[i] THEN Append(F[i - 1], ai_companies[i])
            ELSE F[i - 1]
    IN F[Len(ai_companies)]

\* MoveDown that goes round to the first candidate from the end of the list
MoveDown_WrapsAround(idx, batch, total) ==
    IF idx = total - 1 THEN [idx |-> 0, batch |-> 0]
    ELSE IF idx % COMPANY_BATCH_SIZE = COMPANY_BATCH_SIZE - 1
         THEN [idx |-> idx + 1, batch |-> batch + 1]
    ELSE [idx |-> idx + 1, batch |-> batch]

\* lines 849-855, 'j' / down: the cursor and the batch index after the key
MoveDown(idx, batch, total) ==
    LET start == batch * COMPANY_BATCH_SIZE
        end == Min(start + COMPANY_BATCH_SIZE, total)
        total_batches == (total + COMPANY_BATCH_SIZE - 1) \div COMPANY_BATCH_SIZE
    IN IF idx < end - 1 THEN [idx |-> idx + 1, batch |-> batch]
       ELSE IF batch < total_batches - 1
            THEN [idx |-> (batch + 1) * COMPANY_BATCH_SIZE, batch |-> batch + 1]
       ELSE [idx |-> idx, batch |-> batch]

\* lines 856-863, 'k' / up: the cursor and the batch index after the key
MoveUp(idx, batch, total) ==
    LET start == batch * COMPANY_BATCH_SIZE
    IN IF idx > start THEN [idx |-> idx - 1, batch |-> batch]
       ELSE IF batch > 0
            THEN LET new_start == (batch - 1) * COMPANY_BATCH_SIZE IN
                 [idx |-> Min(new_start + COMPANY_BATCH_SIZE - 1, total - 1),
                  batch |-> batch - 1]
       ELSE [idx |-> idx, batch |-> batch]

\* handle_ai_companies; the cursor selection_idx is a 0-based index into
\* ai_companies, ai_company_batch_idx numbers the pages from 0
HandleAiCompanies(key) ==
    /\ screen = "AI_PROMPT_COMPANIES"
    /\ LET total == Len(ai_companies)
           start == ai_company_batch_idx * COMPANY_BATCH_SIZE
           end == Min(start + COMPANY_BATCH_SIZE, total)
           total_batches == (total + COMPANY_BATCH_SIZE - 1) \div COMPANY_BATCH_SIZE
       IN
       IF key \in {"j", "down"} THEN
            /\ selection_idx' = MoveDown(selection_idx, ai_company_batch_idx, total).idx
            /\ ai_company_batch_idx' = MoveDown(selection_idx, ai_company_batch_idx, total).batch
            /\ UNCHANGED <<screen, ai_company_selected, ai_prompt>>
       ELSE IF key \in {"k", "up"} THEN
            /\ selection_idx' = MoveUp(selection_idx, ai_company_batch_idx, total).idx
            /\ ai_company_batch_idx' = MoveUp(selection_idx, ai_company_batch_idx, total).batch
            /\ UNCHANGED <<screen, ai_company_selected, ai_prompt>>
       ELSE IF key \in {"<", ",", "left"} THEN
            /\ IF ai_company_batch_idx > 0 THEN
                    /\ ai_company_batch_idx' = ai_company_batch_idx - 1
                    /\ selection_idx' = (ai_company_batch_idx - 1) * COMPANY_BATCH_SIZE
               ELSE UNCHANGED <<selection_idx, ai_company_batch_idx>>
            /\ UNCHANGED <<screen, ai_company_selected, ai_prompt>>
       ELSE IF key \in {">", ".", "right"} THEN
            /\ IF ai_company_batch_idx < total_batches - 1 THEN
                    /\ ai_company_batch_idx' = ai_company_batch_idx + 1
                    /\ selection_idx' = (ai_company_batch_idx + 1) * COMPANY_BATCH_SIZE
               ELSE UNCHANGED <<selection_idx, ai_company_batch_idx>>
            /\ UNCHANGED <<screen, ai_company_selected, ai_prompt>>
       ELSE IF key = " " THEN
            /\ ai_company_selected' =
                   IF start <= selection_idx /\ selection_idx < end
                   THEN Toggled(ai_company_selected, selection_idx)
                   ELSE ai_company_selected
            /\ UNCHANGED <<screen, selection_idx, ai_company_batch_idx, ai_prompt>>
       ELSE IF key \in Digits THEN
            /\ LET num == IF DigitVal(key) = 0 THEN 10 ELSE DigitVal(key)
                   idx == start + num - 1
               IN ai_company_selected' =
                      IF idx < end THEN Toggled(ai_company_selected, idx)
                      ELSE ai_company_selected
            /\ UNCHANGED <<screen, selection_idx, ai_company_batch_idx, ai_prompt>>
       ELSE IF key = "a" THEN
            /\ ai_company_selected' = [n \in 1..total |-> TRUE]
            /\ UNCHANGED <<screen, selection_idx, ai_company_batch_idx, ai_prompt>>
       ELSE IF key = "c" THEN
            /\ ai_company_selected' = [n \in 1..total |-> FALSE]
            /\ UNCHANGED <<screen, selection_idx, ai_company_batch_idx, ai_prompt>>
       ELSE IF key = "n" THEN
            /\ ai_prompt' = generate_ai_prompt(ai_keywords, ai_locations, SelectedCompanies)
            /\ screen' = "AI_PROMPT_DISPLAY"
            /\ UNCHANGED <<selection_idx, ai_company_batch_idx, ai_company_selected>>
       ELSE IF key \in {"b", "esc"} THEN
            /\ screen' = "AI_PROMPT_LOCATIONS"
            /\ UNCHANGED <<selection_idx, ai_company_batch_idx, ai_company_selected, ai_prompt>>
       ELSE UNCHANGED <<screen, selection_idx, ai_company_batch_idx, ai_company_selected,
                        ai_prompt>>
    /\ UNCHANGED <<prev_screen, profile_idx, message, tab_limit, delay, rendered, profiles,
                   fileVars, valVars, workers, open_calls, fetches, ai_keywords,
                   ai_locations, ai_companies, ai_input_buffer>>
    /\ UNCHANGED timerVars

\* handle_ai_prompt_display; copied tells whether copy_to_clipboard succeeded
HandleAiPromptDisplay(key, copied) ==
    /\ screen = "AI_PROMPT_DISPLAY"
    /\ IF key = "c" THEN
            /\ message' = IF copied THEN Msg("Prompt copied to clipboard!", "")
                          ELSE Msg("Failed to copy - manually select and copy", "")
            /\ UNCHANGED screen
       ELSE IF key = "e" THEN
            /\ screen' = "AI_PROMPT_KEYWORDS"
            /\ UNCHANGED message
       ELSE IF key \in {"b", "esc", "enter"} THEN
            /\ screen' = "MAIN_MENU"
            /\ UNCHANGED message
       ELSE UNCHANGED <<screen, message>>
    /\ UNCHANGED <<prev_screen, profile_idx, selection_idx, tab_limit, delay, rendered,
                   profiles, fileVars, valVars, workers, open_calls, fetches, aiVars>>
    /\ UNCHANGED timerVars

----------------------------------------------------------------------------
(* The validation thread: run_validation *)

Workers == 1..Len(workers)

\* the worker's local variables change, the shared state does not
Local(w, rec) ==
    /\ workers' = [workers EXCEPT ![w] = rec]
    /\ UNCHANGED <<navVars, rendered, profiles, fileVars, valVars, open_calls, fetches, aiVars>>
    /\ UNCHANGED timerVars

\* Classified with the two lists created anew for every URL
Classified_ListsPerUrl(wk, ok_url) ==
    IF ok_url # None
    THEN [wk EXCEPT !.validated = <<ok_url>>, !.failed = <<>>, !.pc = "inc_completed",
                    !.finals = Append(@, ok_url)]
    ELSE [wk EXCEPT !.validated = <<>>, !.failed = <<wk.url>>, !.pc = "inc_completed",
                    !.finals = Append(@, ok_url)]

\* Classified that records the requested URL for a valid position
Classified_KeepsRequested(wk, ok_url) ==
    IF ok_url # None
    THEN [wk EXCEPT !.validated = Append(@, wk.url), !.pc = "inc_completed",
                    !.finals = Append(@, ok_url)]
    ELSE [wk EXCEPT !.failed = Append(@, wk.url), !.pc = "inc_completed",
                    !.finals = Append(@, ok_url)]

\* validated.append(ok_url) / failed.append(url), lines 494-497
Classified(wk, ok_url) ==
    IF ok_url # None
    THEN [wk EXCEPT !.validated = Append(@, ok_url), !.pc = "inc_completed",
                    !.finals = Append(@, ok_url)]
    ELSE [wk EXCEPT !.failed = Append(@, wk.url), !.pc = "inc_completed",
                    !.finals = Append(@, ok_url)]

\* lines 474-476: the thread reads the URL list of its profile
W_Begin(w) ==
    /\ workers[w].pc = "begin"
    /\ Local(w, [workers[w] EXCEPT !.urls = profiles[workers[w].profile].urls,
                                   !.pc = "loop"])

\* W_LoopEnd that reports "done" before the artifacts are written
W_LoopEnd_EarlyDone(w) ==
    /\ workers[w].pc = "loop"
    /\ workers[w].i = Len(workers[w].urls)
    /\ validation_status' = "done"
    /\ workers' = [workers EXCEPT ![w].pc = "write_validated"]
    /\ UNCHANGED <<navVars, rendered, profiles, fileVars, validation_cancel,
                   validation_total, validation_completed, validation_valid,
                   validation_failed, validation_error, open_calls, fetches, aiVars>>
    /\ UNCHANGED timerVars

\* line 481, list exhausted: leave the loop
W_LoopEnd(w) ==
    /\ workers[w].pc = "loop"
    /\ workers[w].i = Len(workers[w].urls)
    /\ Local(w, [workers[w] EXCEPT !.pc = "write_validated"])

\* W_LoopNext without the check of the cancel flag
W_LoopNext_NoCheck(w) ==
    /\ workers[w].pc = "loop"
    /\ workers[w].i < Len(workers[w].urls)
    /\ workers' = [workers EXCEPT ![w].url = workers[w].urls[workers[w].i + 1],
                                  ![w].pc = "head"]
    /\ UNCHANGED <<navVars, rendered, profiles, fileVars, valVars, open_calls, fetches, aiVars>>
    /\ UNCHANGED timerVars

\* lines 481-482, next URL and the cancel flag is clear
W_LoopNext(w) ==
    /\ workers[w].pc = "loop"
    /\ workers[w].i < Len(workers[w].urls)
    /\ ~validation_cancel
    /\ Local(w, [workers[w] EXCEPT !.url = workers[w].urls[workers[w].i + 1],
                                   !.pc = "head"])

\* W_Cancelled without the return: the status is set and the URL is probed
W_Cancelled_NoReturn(w) ==
    /\ workers[w].pc = "loop"
    /\ workers[w].i < Len(workers[w].urls)
    /\ validation_cancel
    /\ validation_status' = "cancelled"
    /\ workers' = [workers EXCEPT ![w].url = workers[w].urls[workers[w].i + 1],
                                  ![w].pc = "head"]
    /\ UNCHANGED <<navVars, rendered, profiles, fileVars, validation_cancel,
                   validation_total, validation_completed, validation_valid,
                   validation_failed, validation_error, open_calls, fetches, aiVars>>
    /\ UNCHANGED timerVars

\* W_Cancelled that returns without reporting the cancellation
W_Cancelled_Silent(w) ==
    /\ workers[w].pc = "loop"
    /\ workers[w].i < Len(workers[w].urls)
    /\ validation_cancel
    /\ workers' = [workers EXCEPT ![w] = Exited(w)]
    /\ UNCHANGED <<navVars, rendered, profiles, fileVars, valVars, open_calls, fetches, aiVars>>
    /\ UNCHANGED timerVars

\* lines 481-484, next URL and the cancel flag is set
W_Cancelled(w) ==
    /\ workers[w].pc = "loop"
    /\ workers[w].i < Len(workers[w].urls)
    /\ validation_cancel
    /\ validation_status' = "cancelled"
    /\ workers' = [workers EXCEPT ![w] = Exited(w)]
    /\ UNCHANGED <<navVars, rendered, profiles, fileVars, validation_cancel,
                   validation_total, validation_completed, validation_valid,
                   validation_failed, validation_error, open_calls, fetches, aiVars>>
    /\ UNCHANGED timerVars

\* what a request can come to: a response below 400, a response of 400 or
\* more, or an httpx.HTTPError (timeout, connection failure, protocol error)
RequestOutcomes == {"ok", "status>=400", "HTTPError"}

\* str(resp.url): the server of URL_B redirects to URL_R, which
\* follow_redirects=True follows; the other URLs answer themselves
FinalUrl(url) == IF url = URL_B THEN URL_R ELSE url

\* lines 487-488, 490-497: client.head
W_Head(w, outcome) ==
    /\ workers[w].pc = "head"
    /\ ~HttpxRejects(workers[w].url)
    /\ Local(w, CASE outcome = "ok" ->
                        Classified(workers[w], FinalUrl(workers[w].url))
                  [] outcome = "status>=400" -> [workers[w] EXCEPT !.pc = "get"]
                  [] outcome = "HTTPError" -> Classified(workers[w], None))

\* line 487 for a URL httpx cannot parse: httpx.InvalidURL is not an
\* httpx.HTTPError, so it leaves the loop for the handler of line 515
W_HeadRaises(w) ==
    /\ workers[w].pc = "head"
    /\ HttpxRejects(workers[w].url)
    /\ Local(w, [workers[w] EXCEPT !.exc = "InvalidURL", !.pc = "set_error"])

\* lines 489-497: client.get after a HEAD answer of 400 or more
W_Get(w, outcome) ==
    /\ workers[w].pc = "get"
    /\ Local(w, CASE outcome = "ok" ->
                        Classified(workers[w], FinalUrl(workers[w].url))
                  [] OTHER -> Classified(workers[w], None))

\* line 498
W_IncCompleted(w) ==
    /\ workers[w].pc = "inc_completed"
    /\ validation_completed' = validation_completed + 1
    /\ workers' = [workers EXCEPT ![w].pc = "set_valid"]
    /\ UNCHANGED <<navVars, rendered, profiles, fileVars, validation_cancel,
                   validation_status, validation_total, validation_valid,
                   validation_failed, validation_error, open_calls, fetches, aiVars>>
    /\ UNCHANGED timerVars

\* line 499
W_SetValid(w) ==
    /\ workers[w].pc = "set_valid"
    /\ validation_valid' = Len(workers[w].validated)
    /\ workers' = [workers EXCEPT ![w].pc = "set_failed"]
    /\ UNCHANGED <<navVars, rendered, profiles, fileVars, validation_cancel,
                   validation_status, validation_total, validation_completed,
                   validation_failed, validation_error, open_calls, fetches, aiVars>>
    /\ UNCHANGED timerVars

\* line 500, then back to the head of the loop
W_SetFailed(w) ==
    /\ workers[w].pc = "set_failed"
    /\ validation_failed' = Len(workers[w].failed)
    /\ workers' = [workers EXCEPT ![w].pc = "loop", ![w].i = @ + 1]
    /\ UNCHANGED <<navVars, rendered, profiles, fileVars, validation_cancel,
                   validation_status, validation_total, validation_completed,
                   validation_valid, validation_error, open_calls, fetches, aiVars>>
    /\ UNCHANGED timerVars

\* "\n".join(validated) + "\n"
ValidatedText(validated) == Join(validated, <<NL>>) \o <<NL>>

LABEL_VALIDATED == <<"V", "a", "l", "i", "d", "a", "t", "e", "d", ":", " ">>
LABEL_FAILED == <<"F", "a", "i", "l", "e", "d", ":", " ">>
LABEL_FAILED_URLS == <<"F", "a", "i", "l", "e", "d", " ", "U", "R", "L", "s", ":">>

\* "\n".join(report_lines).strip() + "\n"
ReportText(validated, failed) ==
    LET report_lines == <<LABEL_VALIDATED \o DecStr(Len(validated)),
                          LABEL_FAILED \o DecStr(Len(failed)),
                          <<>>,
                          LABEL_FAILED_URLS>> \o failed
    IN Strip(Join(report_lines, <<NL>>)) \o <<NL>>

\* how Path.write_text can end: the text is written, or OSError is raised
\* (no permission, read-only directory) and the file is as before
WriteOutcomes == {"written", "raises"}

Written(old, text, outcome) == IF outcome = "written" THEN text ELSE old

\* line 505
W_WriteValidated(w, outcome) ==
    /\ workers[w].pc = "write_validated"
    /\ LET p == workers[w].profile IN
       validated_txt' = [validated_txt EXCEPT
           ![p] = Written(@, ValidatedText(workers[w].validated), outcome)]
    /\ workers' = [workers EXCEPT
           ![w] = IF outcome = "written"
                  THEN [@ EXCEPT !.pc = "write_report", !.wrote_validated = TRUE]
                  ELSE [@ EXCEPT !.pc = "set_error", !.exc = "OSError"]]
    /\ UNCHANGED <<navVars, rendered, profiles, jobs_txt, report_txt, valVars,
                   open_calls, fetches, aiVars>>
    /\ UNCHANGED timerVars

\* lines 506-513
W_WriteReport(w, outcome) ==
    /\ workers[w].pc = "write_report"
    /\ LET p == workers[w].profile IN
       report_txt' = [report_txt EXCEPT
           ![p] = Written(@, ReportText(workers[w].validated, workers[w].failed), outcome)]
    /\ workers' = [workers EXCEPT
           ![w] = IF outcome = "written"
                  THEN [@ EXCEPT !.pc = "set_done", !.wrote_report = TRUE]
                  ELSE [@ EXCEPT !.pc = "set_error", !.exc = "OSError"]]
    /\ UNCHANGED <<navVars, rendered, profiles, jobs_txt, validated_txt, valVars,
                   open_calls, fetches, aiVars>>
    /\ UNCHANGED timerVars

\* W_SetDone that also takes the session back to the main menu
W_SetDone_Navigates(w) ==
    /\ workers[w].pc = "set_done"
    /\ validation_status' = "done"
    /\ screen' = "MAIN_MENU"
    /\ workers' = [workers EXCEPT ![w] = Exited(w)]
    /\ UNCHANGED <<prev_screen, profile_idx, selection_idx, message, tab_limit, delay,
                   rendered, profiles, fileVars, validation_cancel,
                   validation_total, validation_completed, validation_valid,
                   validation_failed, validation_error, open_calls, fetches, aiVars>>
    /\ UNCHANGED timerVars

\* line 514
W_SetDone(w) ==
    /\ workers[w].pc = "set_done"
    /\ validation_status' = "done"
    /\ workers' = [workers EXCEPT ![w] = Exited(w)]
    /\ UNCHANGED <<navVars, rendered, profiles, fileVars, validation_cancel,
                   validation_total, validation_completed, validation_valid,
                   validation_failed, validation_error, open_calls, fetches, aiVars>>
    /\ UNCHANGED timerVars

\* line 516
W_SetErrorStatus(w) ==
    /\ workers[w].pc = "set_error"
    /\ validation_status' = "error"
    /\ workers' = [workers EXCEPT ![w].pc = "set_error_msg"]
    /\ UNCHANGED <<navVars, rendered, profiles, fileVars, validation_cancel,
                   validation_total, validation_completed, validation_valid,
                   validation_failed, validation_error, open_calls, fetches, aiVars>>
    /\ UNCHANGED timerVars

\* line 517
W_SetErrorMsg(w) ==
    /\ workers[w].pc = "set_error_msg"
    /\ validation_error' = workers[w].exc
    /\ workers' = [workers EXCEPT ![w] = Exited(w)]
    /\ UNCHANGED <<navVars, rendered, profiles, fileVars, validation_cancel,
                   validation_status, validation_total, validation_completed,
                   validation_valid, validation_failed, open_calls, fetches, aiVars>>
    /\ UNCHANGED timerVars

----------------------------------------------------------------------------
(* The session with its validation threads *)

\* keys pressed in the sessions explored: every key of the main menu, the
\* profile list and the validating screen that can reach, cancel, leave or
\* follow a validation run
SessionKeys == Keys \ {"o", "g"}

Next ==
    \/ Render
    \/ \E key \in SessionKeys : HandleMainMenu(key)
    \/ \E key \in SessionKeys : HandleProfileSelect(key)
    \/ \E key \in SessionKeys : HandleValidating(key)
    \/ \E outcome \in FetchOutcomes, list \in FetchedLists : HandleFetching(outcome, list)
    \/ \E w \in Workers : W_Begin(w)
    \/ \E w \in Workers : W_LoopEnd(w)
    \/ \E w \in Workers : W_LoopNext(w)
    \/ \E w \in Workers : W_Cancelled(w)
    \/ \E w \in Workers, outcome \in RequestOutcomes : W_Head(w, outcome)
    \/ \E w \in Workers : W_HeadRaises(w)
    \/ \E w \in Workers, outcome \in RequestOutcomes : W_Get(w, outcome)
    \/ \E w \in Workers : W_IncCompleted(w)
    \/ \E w \in Workers : W_SetValid(w)
    \/ \E w \in Workers : W_SetFailed(w)
    \/ \E w \in Workers, outcome \in WriteOutcomes : W_WriteValidated(w, outcome)
    \/ \E w \in Workers, outcome \in WriteOutcomes : W_WriteReport(w, outcome)
    \/ \E w \in Workers : W_SetDone(w)
    \/ \E w \in Workers : W_SetErrorStatus(w)
    \/ \E w \in Workers : W_SetErrorMsg(w)

Spec == Init /\ [][Next]_vars

\* one step of the validation thread w, whatever its request or write
\* comes to
WorkerStep(w) ==
    /\ w \in Workers
    /\ \/ W_Begin(w)
       \/ W_LoopEnd(w)
       \/ W_LoopNext(w)
       \/ W_Cancelled(w)
       \/ \E outcome \in RequestOutcomes : W_Head(w, outcome)
       \/ W_HeadRaises(w)
       \/ \E outcome \in RequestOutcomes : W_Get(w, outcome)
       \/ W_IncCompleted(w)
       \/ W_SetValid(w)
       \/ W_SetFailed(w)
       \/ \E outcome \in WriteOutcomes : W_WriteValidated(w, outcome)
       \/ \E outcome \in WriteOutcomes : W_WriteReport(w, outcome)
       \/ W_SetDone(w)
       \/ W_SetErrorStatus(w)
       \/ W_SetErrorMsg(w)

\* the same session when every started thread keeps being scheduled and
\* every request and every write returns or raises
SpecFair == Init /\ [][Next]_vars /\ \A w \in 1..MaxRuns : WF_vars(WorkerStep(w))

----------------------------------------------------------------------------
(* The session with the AI prompt builder *)

NextAI ==
    \/ Render
    \/ \E key \in AiMenuKeys : HandleMainMenu(key)
    \/ \E key \in AiMenuKeys : HandleProfileSelect(key)
    \/ \E key \in AiSessionKeys, entry \in TextEntries : HandleAiKeywords(key, entry)
    \/ \E key \in AiSessionKeys, entry \in LocationEntries : HandleAiLocations(key, entry)
    \/ \E key \in AiSessionKeys : HandleAiCompanies(key)
    \/ \E key \in AiSessionKeys, copied \in BOOLEAN : HandleAiPromptDisplay(key, copied)

SpecAI == Init /\ [][NextAI]_vars

----------------------------------------------------------------------------
(* The same session started in a directory with ManyProfiles profiles; the *)
(* keys are those that move a cursor or change the screen                  *)

ManyKeys == {"g", "p", "j", "k", "n", "b", "x"}

NotEntered == [cancelled |-> TRUE, pieces |-> <<>>]

NextManyProfiles ==
    \/ Render
    \/ \E key \in ManyKeys : HandleMainMenu(key)
    \/ \E key \in ManyKeys : HandleProfileSelect(key)
    \/ \E key \in ManyKeys : HandleAiKeywords(key, NotEntered)
    \/ \E key \in ManyKeys : HandleAiLocations(key, NotEntered)
    \/ \E key \in ManyKeys : HandleAiCompanies(key)
    \/ \E key \in ManyKeys : HandleAiPromptDisplay(key, TRUE)

InitManyProfiles ==
    SessionStart(0..(ManyProfiles - 1)) /\ TimerConstructed({DefaultTimer})

SpecManyProfiles == InitManyProfiles /\ [][NextManyProfiles]_vars

----------------------------------------------------------------------------
(* The session that opens tabs and fetches, over four profile directories *)

OpenProfiles == 0..3

OpenKeys == {"o", "f", "p", "q", "j", "k", "enter", "b", "x"}

NextOpen ==
    \/ Render
    \/ \E key \in OpenKeys : HandleMainMenu(key)
    \/ \E key \in OpenKeys : HandleProfileSelect(key)
    \/ \E e1 \in NumberEntries, e2 \in NumberEntries : HandleOpenSettings(e1, e2)
    \/ \E failing \in FailingSets : HandleOpening(failing)
    \/ \E outcome \in FetchOutcomes, list \in FetchedLists : HandleFetching(outcome, list)

InitOpen == SessionStart(OpenProfiles) /\ TimerConstructed({DefaultTimer})

SpecOpen == InitOpen /\ [][NextOpen]_vars

----------------------------------------------------------------------------
(* The session in which jobs.txt of the first profile is rewritten by hand *)
(* and read again by choosing the profile                                  *)

UrlLines == {URL_A, RAW_B, BLANK, COMMENT, BAD_LINE, BRACKET}

\* the files of at most MaxFileLines lines
UrlFiles == UNION {[1..n -> UrlLines] : n \in 0..MaxFileLines}

\* an editor replaces profiles/<first>/jobs.txt, once
EditJobs(file) ==
    /\ jobs_txt[0] = InitialJobs(0)
    /\ jobs_txt' = [jobs_txt EXCEPT ![0] = file]
    /\ UNCHANGED <<navVars, rendered, profiles, validated_txt, report_txt, valVars,
                   workers, open_calls, fetches, aiVars>>
    /\ UNCHANGED timerVars

UrlKeys == {"p", "j", "k", "enter", "b", "x"}

NextUrls ==
    \/ \E file \in UrlFiles : EditJobs(file)
    \/ Render
    \/ \E key \in UrlKeys : HandleMainMenu(key)
    \/ \E key \in UrlKeys : HandleProfileSelect(key)

SpecUrls == Init /\ [][NextUrls]_vars

----------------------------------------------------------------------------
(* The Pomodoro timer: PomodoroTimer of scheduler.py, and the handlers of  *)
(* PomodoroApp of ui.py that call it                                       *)

Phases == {"WORK", "SHORT_BREAK", "LONG_BREAK"}

\* PomodoroTimer.total_duration
total_duration(t) ==
    IF t.phase = "WORK" THEN config.work_secs
    ELSE IF t.phase = "SHORT_BREAK" THEN config.short_secs
    ELSE config.long_secs

\* PomodoroTimer.cycle_display: the text "current/cycle_size"
cycle_display(t) ==
    LET current == IF t.phase = "WORK" THEN t.completed_in_cycle + 1
                   ELSE t.completed_in_cycle
    IN DecStr(current) \o <<"/">> \o DecStr(config.cycle_size)

start(t) == [t EXCEPT !.status = "RUNNING"]

pause(t) == [t EXCEPT !.status = "PAUSED"]

toggle(t) == IF t.status = "RUNNING" THEN pause(t) ELSE start(t)

\* reset that keeps the status
reset_KeepsStatus(t) == [t EXCEPT !.remaining = total_duration(t)]

reset(t) == [t EXCEPT !.remaining = total_duration(t), !.status = "PAUSED"]

get_duration_for_phase(phase) ==
    IF phase = "WORK" THEN config.work_secs
    ELSE IF phase = "SHORT_BREAK" THEN config.short_secs
    ELSE config.long_secs

\* _determine_next_phase that asks for more than cycle_size work phases
determine_next_phase_Strict(t) ==
    IF t.phase = "WORK"
    THEN LET completed == t.completed_in_cycle + 1 IN
         IF completed > config.cycle_size THEN "LONG_BREAK" ELSE "SHORT_BREAK"
    ELSE "WORK"

determine_next_phase(t) ==
    IF t.phase = "WORK"
    THEN LET completed == t.completed_in_cycle + 1 IN
         IF completed >= config.cycle_size THEN "LONG_BREAK" ELSE "SHORT_BREAK"
    ELSE "WORK"

determine_prev_phase(t) ==
    IF t.phase = "WORK"
    THEN IF t.completed_in_cycle = 0 THEN "LONG_BREAK" ELSE "SHORT_BREAK"
    ELSE "WORK"

\* next_phase that leaves the status as it was
next_phase_KeepsStatus(t) ==
    LET old_phase == t.phase
        new_phase == determine_next_phase(t)
        counted == IF old_phase = "WORK" THEN t.completed_in_cycle + 1
                   ELSE t.completed_in_cycle
        completed == IF old_phase = "WORK" /\ counted >= config.cycle_size THEN 0
                     ELSE counted
        should_auto == IF new_phase = "WORK" THEN config.auto_work ELSE config.auto_break
    IN [timer |-> [phase |-> new_phase,
                   status |-> t.status,
                   remaining |-> get_duration_for_phase(new_phase),
                   completed_in_cycle |-> completed],
        called |-> IF config.on_phase_complete THEN <<<<old_phase, new_phase>>>> ELSE <<>>]

\* next_phase that does not call on_phase_complete
next_phase_NoCallback(t) ==
    LET old_phase == t.phase
        new_phase == determine_next_phase(t)
        counted == IF old_phase = "WORK" THEN t.completed_in_cycle + 1
                   ELSE t.completed_in_cycle
        completed == IF old_phase = "WORK" /\ counted >= config.cycle_size THEN 0
                     ELSE counted
        should_auto == IF new_phase = "WORK" THEN config.auto_work ELSE config.auto_break
    IN [timer |-> [phase |-> new_phase,
                   status |-> IF should_auto THEN "RUNNING" ELSE "PAUSED",
                   remaining |-> get_duration_for_phase(new_phase),
                   completed_in_cycle |-> completed],
        called |-> <<>>]

\* next_phase: the timer after the call and the calls of on_phase_complete
\* next_phase that never starts the count of a new cycle
next_phase_NoWrap(t) ==
    LET old_phase == t.phase
        new_phase == determine_next_phase(t)
        completed == IF old_phase = "WORK" THEN t.completed_in_cycle + 1
                     ELSE t.completed_in_cycle
        should_auto == IF new_phase = "WORK" THEN config.auto_work ELSE config.auto_break
    IN [timer |-> [phase |-> new_phase,
                   status |-> IF should_auto THEN "RUNNING" ELSE "PAUSED",
                   remaining |-> get_duration_for_phase(new_phase),
                   completed_in_cycle |-> completed],
        called |-> IF config.on_phase_complete THEN <<<<old_phase, new_phase>>>> ELSE <<>>]

next_phase(t) ==
    LET old_phase == t.phase
        new_phase == determine_next_phase(t)
        counted == IF old_phase = "WORK" THEN t.completed_in_cycle + 1
                   ELSE t.completed_in_cycle
        completed == IF old_phase = "WORK" /\ counted >= config.cycle_size THEN 0
                     ELSE counted
        should_auto == IF new_phase = "WORK" THEN config.auto_work ELSE config.auto_break
    IN [timer |-> [phase |-> new_phase,
                   status |-> IF should_auto THEN "RUNNING" ELSE "PAUSED",
                   remaining |-> get_duration_for_phase(new_phase),
                   completed_in_cycle |-> completed],
        called |-> IF config.on_phase_complete THEN <<<<old_phase, new_phase>>>> ELSE <<>>]

\* prev_phase that never takes a work phase off the count
prev_phase_KeepsCount(t) ==
    LET old_phase == t.phase
        new_phase == determine_prev_phase(t)
        completed ==
            IF old_phase = "WORK" /\ t.completed_in_cycle > 0 THEN t.completed_in_cycle
            ELSE IF old_phase \in {"SHORT_BREAK", "LONG_BREAK"}
                 THEN IF t.completed_in_cycle > 0 THEN t.completed_in_cycle
                      ELSE IF old_phase = "LONG_BREAK" THEN config.cycle_size - 1
                      ELSE t.completed_in_cycle
            ELSE t.completed_in_cycle
    IN [phase |-> new_phase,
        status |-> "PAUSED",
        remaining |-> get_duration_for_phase(new_phase),
        completed_in_cycle |-> completed]

\* prev_phase that leaves the count at 0 when it goes back from a long break
prev_phase_NoWrap(t) ==
    LET old_phase == t.phase
        new_phase == determine_prev_phase(t)
        completed ==
            IF old_phase \in {"SHORT_BREAK", "LONG_BREAK"} /\ t.completed_in_cycle > 0
            THEN t.completed_in_cycle - 1
            ELSE t.completed_in_cycle
    IN [phase |-> new_phase,
        status |-> "PAUSED",
        remaining |-> get_duration_for_phase(new_phase),
        completed_in_cycle |-> completed]

prev_phase(t) ==
    LET old_phase == t.phase
        new_phase == determine_prev_phase(t)
        completed ==
            IF old_phase = "WORK" /\ t.completed_in_cycle > 0 THEN t.completed_in_cycle
            ELSE IF old_phase \in {"SHORT_BREAK", "LONG_BREAK"}
                 THEN IF t.completed_in_cycle > 0 THEN t.completed_in_cycle - 1
                      ELSE IF old_phase = "LONG_BREAK" THEN config.cycle_size - 1
                      ELSE t.completed_in_cycle
            ELSE t.completed_in_cycle
    IN [phase |-> new_phase,
        status |-> "PAUSED",
        remaining |-> get_duration_for_phase(new_phase),
        completed_in_cycle |-> completed]

\* tick that completes the phase one call after remaining reached zero
tick_LateByOne(t) ==
    IF t.status # "RUNNING" THEN [timer |-> t, called |-> <<>>, result |-> FALSE]
    ELSE IF t.remaining = 0
         THEN [timer |-> next_phase(t).timer,
               called |-> next_phase(t).called,
               result |-> TRUE]
         ELSE [timer |-> [t EXCEPT !.remaining = t.remaining - 1],
               called |-> <<>>, result |-> FALSE]

\* tick that counts down whatever the status is
tick_IgnoresStatus(t) ==
    LET left == IF t.remaining > 0 THEN t.remaining - 1 ELSE t.remaining
        counted == [t EXCEPT !.remaining = left]
    IN IF left = 0
       THEN [timer |-> next_phase(counted).timer,
             called |-> next_phase(counted).called,
             result |-> TRUE]
       ELSE [timer |-> counted, called |-> <<>>, result |-> FALSE]

\* tick: the timer after the call, the calls of on_phase_complete and the
\* value returned
tick(t) ==
    IF t.status # "RUNNING" THEN [timer |-> t, called |-> <<>>, result |-> FALSE]
    ELSE LET left == IF t.remaining > 0 THEN t.remaining - 1 ELSE t.remaining
             counted == [t EXCEPT !.remaining = left]
         IN IF left = 0
            THEN [timer |-> next_phase(counted).timer,
                  called |-> next_phase(counted).called,
                  result |-> TRUE]
            ELSE [timer |-> counted, called |-> <<>>, result |-> FALSE]

\* the observer writes down the phase next_phase has entered
Recorded(t) ==
    IF visited = <<>> \/ Len(visited) >= MaxVisited THEN <<>>
    ELSE Append(visited, <<t.phase, t.completed_in_cycle>>)

\* timer.start(), timer.pause(): called by toggle and by the tests
CallStart ==
    /\ timer' = start(timer)
    /\ phase_complete_calls' = <<>>
    /\ app_calls' = <<>>
    /\ UNCHANGED <<config, tick_result, visited, ticks>>
    /\ UNCHANGED jobVars

CallPause ==
    /\ timer' = pause(timer)
    /\ phase_complete_calls' = <<>>
    /\ app_calls' = <<>>
    /\ UNCHANGED <<config, tick_result, visited, ticks>>
    /\ UNCHANGED jobVars

\* PomodoroApp.action_toggle (Space)
action_toggle ==
    /\ timer' = toggle(timer)
    /\ phase_complete_calls' = <<>>
    /\ app_calls' = <<>>
    /\ UNCHANGED <<config, tick_result, visited, ticks>>
    /\ UNCHANGED jobVars

\* PomodoroApp.action_reset (r)
action_reset ==
    /\ timer' = reset(timer)
    /\ phase_complete_calls' = <<>>
    /\ app_calls' = <<>>
    /\ ticks' = 0
    /\ UNCHANGED <<config, tick_result, visited>>
    /\ UNCHANGED jobVars

\* PomodoroApp.action_next (n)
action_next ==
    /\ timer' = next_phase(timer).timer
    /\ phase_complete_calls' = next_phase(timer).called
    /\ app_calls' = <<<<timer.phase, timer'.phase>>>>
    /\ visited' = Recorded(timer')
    /\ ticks' = 0
    /\ UNCHANGED <<config, tick_result>>
    /\ UNCHANGED jobVars

\* PomodoroApp.action_prev (p)
action_prev ==
    /\ timer' = prev_phase(timer)
    /\ phase_complete_calls' = <<>>
    /\ app_calls' = <<>>
    /\ visited' = <<>>
    /\ ticks' = 0
    /\ UNCHANGED <<config, tick_result>>
    /\ UNCHANGED jobVars

\* PomodoroApp._tick, called every second by set_interval
App_tick ==
    /\ timer' = tick(timer).timer
    /\ tick_result' = tick(timer).result
    /\ phase_complete_calls' = tick(timer).called
    /\ app_calls' = IF tick_result' THEN <<<<timer.phase, timer'.phase>>>> ELSE <<>>
    /\ visited' = IF tick_result' THEN Recorded(timer') ELSE visited
    /\ ticks' = IF tick_result' THEN 0
                ELSE IF timer.status = "RUNNING" THEN ticks + 1 ELSE ticks
    /\ UNCHANGED config
    /\ UNCHANGED jobVars

\* minutes the timers of the model are constructed with
WorkMins == 2
ShortMins == 1
LongMins == 3

TimerConfigs ==
    {TimerConfig(WorkMins, ShortMins, LongMins, n, ab, aw, cb) :
        n \in 1..MaxCycleSize, ab \in BOOLEAN, aw \in BOOLEAN, cb \in BOOLEAN}

InitTimer == SessionStart(Profiles) /\ TimerConstructed(TimerConfigs)

NextTimer ==
    \/ CallStart
    \/ CallPause
    \/ action_toggle
    \/ action_reset
    \/ action_next
    \/ action_prev
    \/ App_tick

SpecTimer == InitTimer /\ [][NextTimer]_vars

\* the timer with both auto-starts on, left to the ticks of set_interval
\* once started
AutoConfigs == {c \in TimerConfigs : c.auto_break /\ c.auto_work}

InitAuto == SessionStart(Profiles) /\ TimerConstructed(AutoConfigs)

NextAuto ==
    \/ CallStart
    \/ App_tick

\* set_interval(1.0, self._tick) keeps calling _tick
SpecAuto == InitAuto /\ [][NextAuto]_vars /\ WF_vars(App_tick)

----------------------------------------------------------------------------
(* Properties of the validation run *)

\* the thread of the latest run; the validation fields of AppState are its
LastRun == workers[Len(workers)]

\* the latest run has ended: its thread has executed its last statement
RunEnded == workers # <<>> /\ LastRun.pc = "finished"

\* the artifacts of the latest run's profile are as they were at its start
ArtifactsUntouched ==
    /\ validated_txt[LastRun.profile] = LastRun.pre_validated
    /\ report_txt[LastRun.profile] = LastRun.pre_report

\* a step taken by a validation thread
IsWorkerStep == \E w \in Workers : workers'[w].pc # workers[w].pc

\* no run is started by the step
SameRun == Len(workers') = Len(workers)

\* the URLs listed below the "Failed URLs:" line of a report
ReportFailedUrls(text) ==
    LET lines == SplitLines(text)
        h == CHOOSE k \in 1..Len(lines) : lines[k] = LABEL_FAILED_URLS
    IN SubSeq(lines, h + 1, Len(lines))

\* C1: in every state of a validation run, validation_valid +
\* validation_failed = validation_completed and validation_completed <=
\* validation_total (the number of URLs of the run).
C1_CountersConsistent ==
    /\ validation_valid + validation_failed = validation_completed
    /\ validation_completed <= validation_total

\* C2 as stated: pressing 'c' when exactly k < N URLs are completed ends the
\* run with status "cancelled", validation_completed = k and no artifact
\* written.
C2_CancelStopsAtOnce ==
    RunEnded /\ LastRun.cancel_at >= 0 /\ LastRun.cancel_at < validation_total
    => /\ validation_status = "cancelled"
       /\ validation_completed = LastRun.cancel_at
       /\ ~LastRun.wrote_validated /\ ~LastRun.wrote_report

\* C2 amended: pressing 'c' when exactly k < N URLs are completed lets at
\* most the probe then in flight finish: the run ends with
\* validation_completed in {k, k + 1}; it ends "cancelled" with both
\* artifacts untouched, unless the probe in flight was that of the last URL
\* (write-back follows) or raised an error that is no httpx.HTTPError
\* (status "error").
C2_CancelLetsOneProbeFinish ==
    RunEnded /\ LastRun.cancel_at >= 0 /\ LastRun.cancel_at < validation_total
    => /\ validation_completed \in {LastRun.cancel_at, LastRun.cancel_at + 1}
       /\ validation_status = "cancelled"
            => ~LastRun.wrote_validated /\ ~LastRun.wrote_report /\ ArtifactsUntouched
       /\ validation_status # "cancelled"
            => \/ validation_completed = validation_total
               \/ validation_status = "error" /\ LastRun.exc = "InvalidURL"

\* C2 witness: a run cancelled at k = 0 that ended "cancelled" after the
\* probe in flight was counted
C2_Witness ==
    /\ RunEnded
    /\ LastRun.cancel_at = 0
    /\ validation_status = "cancelled"
    /\ validation_completed = 1

\* C3: a run that ended with status "cancelled" or "error" has written
\* neither artifact: both are as they were before the run started.
C3_FailedRunWritesNothing ==
    RunEnded /\ validation_status \in {"cancelled", "error"}
    => ~LastRun.wrote_validated /\ ~LastRun.wrote_report /\ ArtifactsUntouched

\* C4: a run that ended with status "done" has written both artifacts, the
\* number of lines of jobs_validated.txt is validation_valid and the number
\* of URLs under "Failed URLs:" in jobs_report.txt is validation_failed.
C4_DoneArtifactsMatchCounters ==
    RunEnded /\ validation_status = "done"
    => /\ LastRun.wrote_validated /\ LastRun.wrote_report
       /\ Len(SplitLines(validated_txt[LastRun.profile])) = validation_valid
       /\ Len(ReportFailedUrls(report_txt[LastRun.profile])) = validation_failed

\* C5: no probe outcome ends the run: a thread is on its way to status
\* "error" only because writing an artifact raised.
C5_OnlyWriteFailuresAreFatal ==
    \A w \in Workers :
        workers[w].pc \in {"set_error", "set_error_msg"} => workers[w].exc = "OSError"

\* C6: with the cancel flag set, the thread takes no further URL from the
\* list (a probe is in flight once its URL has passed the check of line
\* 482), so validation_completed grows by at most one after 'c'; and the
\* thread's next check with a URL left sets status "cancelled", ends the
\* thread and writes no file.
C6_NoProbeAfterCancel ==
    /\ [][\A w \in Workers :
            validation_cancel /\ workers[w].pc = "loop" /\ workers'[w].pc # "loop"
            /\ workers[w].i < Len(workers[w].urls)
            => /\ workers'[w].pc = "finished"
               /\ validation_status' = "cancelled"
               /\ UNCHANGED fileVars]_vars
    /\ [](workers # <<>> /\ LastRun.cancel_at >= 0
            => validation_completed <= LastRun.cancel_at + 1)

\* C6 witness: the flag was set with one URL completed and one left, and the
\* thread stopped at its next check
C6_Witness ==
    /\ RunEnded
    /\ validation_cancel
    /\ validation_status = "cancelled"
    /\ LastRun.cancel_at = 1
    /\ validation_completed = 1
    /\ LastRun.i < Len(LastRun.urls)

\* C7: at most one validation thread has statements left to execute.
C7_AtMostOneLiveWorker ==
    Cardinality({w \in Workers : workers[w].pc # "finished"}) <= 1

\* C8: within a run (no start_validation in the step) none of
\* validation_completed, validation_valid, validation_failed and
\* validation_total decreases.
C8_CountersNeverDecrease ==
    [][SameRun => /\ validation_completed' >= validation_completed
                  /\ validation_valid' >= validation_valid
                  /\ validation_failed' >= validation_failed
                  /\ validation_total' >= validation_total]_vars

\* C8 witness: a run in which both the valid and the failed counter have
\* grown
C8_Witness ==
    /\ validation_status = "running"
    /\ validation_valid = 1
    /\ validation_failed = 1

\* C9: once the status is "done", "cancelled" or "error", the status and
\* the four counters stay as they are until start_validation starts the
\* next run.
C9_FrozenAfterRunning ==
    [][(validation_status \in {"done", "cancelled", "error"}) /\ SameRun
       => (UNCHANGED <<validation_status, validation_total, validation_completed,
                       validation_valid, validation_failed>>)]_vars

\* C9 witness: the thread acted after the status left "running" (it stored
\* the error message) and the run is over
C9_Witness ==
    /\ RunEnded
    /\ validation_status = "error"
    /\ validation_error = "OSError"
    /\ validation_completed = 2

\* C10: a step of a validation thread changes none of screen, prev_screen,
\* profile_idx, selection_idx, message, the tab settings, the profiles' URL
\* lists and counts, jobs.txt, the cancel flag and validation_total.
C10_WorkerFrame ==
    [][IsWorkerStep
       => (UNCHANGED <<screen, prev_screen, profile_idx, selection_idx, message,
                       tab_limit, delay, rendered, profiles, jobs_txt,
                       validation_cancel, validation_total>>)]_vars

\* C10 witness: a thread has run to the end and written both artifacts
\* while the session stayed on the validating screen
C10_Witness ==
    /\ RunEnded
    /\ validation_status = "done"
    /\ screen = "VALIDATING"
    /\ LastRun.wrote_validated /\ LastRun.wrote_report
    /\ validated_txt[LastRun.profile] # NoFile

\* the URLs a written list holds: its lines that are not blank (read_urls
\* takes a blank line for no entry)
ListedUrls(text) == SelectSeq(SplitLines(text), LAMBDA l : Strip(l) # <<>>)

\* the final URLs of the positions classified valid, in the order of U
ExpectedValidated(wk) == SelectSeq(wk.finals, LAMBDA u : u # None)

\* the requested URLs of the positions classified failed, in the order of U
ExpectedFailed(wk) ==
    LET F[k \in 0..Len(wk.finals)] ==
            IF k = 0 THEN <<>>
            ELSE IF wk.finals[k] = None THEN Append(F[k - 1], wk.urls[k])
            ELSE F[k - 1]
    IN F[Len(wk.finals)]

\* C11: after a run over U ended "done", every position of U has been
\* classified valid or failed (never both), jobs_validated.txt lists the
\* final URLs of the valid positions in the order of U, the "Failed URLs:"
\* section of jobs_report.txt lists the requested URLs of the failed
\* positions in the order of U, and the first two lines of the report state
\* the two counts.
C11_ArtifactsListClassification ==
    RunEnded /\ validation_status = "done"
    => LET wk == LastRun
           report == SplitLines(report_txt[wk.profile])
       IN /\ Len(wk.finals) = Len(wk.urls)
          /\ Len(ExpectedValidated(wk)) + Len(ExpectedFailed(wk)) = Len(wk.urls)
          /\ ListedUrls(validated_txt[wk.profile]) = ExpectedValidated(wk)
          /\ ReportFailedUrls(report_txt[wk.profile]) = ExpectedFailed(wk)
          /\ report[1] = LABEL_VALIDATED \o DecStr(Len(ExpectedValidated(wk)))
          /\ report[2] = LABEL_FAILED \o DecStr(Len(ExpectedFailed(wk)))

\* C11 witness: a run over <<URL_A, URL_B>> ended "done" with the first URL
\* failed and the second valid after a redirect
C11_Witness ==
    /\ RunEnded
    /\ validation_status = "done"
    /\ LastRun.urls = <<URL_A, URL_B>>
    /\ ListedUrls(validated_txt[LastRun.profile]) = <<URL_R>>
    /\ ReportFailedUrls(report_txt[LastRun.profile]) = <<URL_A>>

----------------------------------------------------------------------------
(* Properties of navigation and of the AI prompt builder *)

BackKeys == {"b", "esc"}

\* the step is a "back" action: b / esc handled by a screen that has one
IsBackAction ==
    \E key \in BackKeys :
        \/ HandleProfileSelect(key)
        \/ HandleValidating(key)
        \/ HandleAiKeywords(key, NotEntered)
        \/ HandleAiLocations(key, NotEntered)
        \/ HandleAiCompanies(key)
        \/ HandleAiPromptDisplay(key, TRUE)

\* C12: every "back" action (b / esc) sets the screen to the value
\* prev_screen holds, on every screen, the four AI-prompt screens included.
C12_BackRestoresPrevScreen ==
    [][IsBackAction => screen' = prev_screen]_vars

\* C13: every step that enters the profile list sets the cursor to the
\* active profile index, and every step that enters company selection
\* leaves cursor and batch index at their initial position 0.
C13_EntryResetsScratch ==
    [][/\ screen # "PROFILE_SELECT" /\ screen' = "PROFILE_SELECT"
            => selection_idx' = profile_idx'
       /\ screen # "AI_PROMPT_COMPANIES" /\ screen' = "AI_PROMPT_COMPANIES"
            => selection_idx' = 0 /\ ai_company_batch_idx' = 0]_vars

\* ceil(total_candidates / 10)
NumBatches == (Len(ai_companies) + COMPANY_BATCH_SIZE - 1) \div COMPANY_BATCH_SIZE

\* C14: on the company-selection screen, whatever keys it has handled,
\* 0 <= cursor < total_candidates and 0 <= batch index < number of batches.
C14_CursorAndBatchInRange ==
    screen = "AI_PROMPT_COMPANIES"
    => /\ 0 <= selection_idx /\ selection_idx < Len(ai_companies)
       /\ 0 <= ai_company_batch_idx /\ ai_company_batch_idx < NumBatches

IsDown == \E key \in {"j", "down"} : HandleAiCompanies(key)
IsUp == \E key \in {"k", "up"} : HandleAiCompanies(key)

\* first and last candidate of the displayed page
PageStart == ai_company_batch_idx * COMPANY_BATCH_SIZE
PageLast == Min(PageStart + COMPANY_BATCH_SIZE, Len(ai_companies)) - 1

\* C15: 'down' at the last candidate of a page that is not the last moves
\* the cursor to the first candidate of the next page and adds one to the
\* batch index; 'up' at the first candidate of a page that is not the first
\* moves it to the last candidate of the page before and takes one from the
\* batch index; 'down' at the last candidate of the last page and 'up' at
\* the first candidate of the first page change neither.
C15_PageBoundaryMoves ==
    [][/\ IsDown /\ selection_idx = PageLast /\ ai_company_batch_idx < NumBatches - 1
            => /\ selection_idx' = PageLast + 1
               /\ ai_company_batch_idx' = ai_company_batch_idx + 1
       /\ IsUp /\ selection_idx = PageStart /\ ai_company_batch_idx > 0
            => /\ selection_idx' = PageStart - 1
               /\ ai_company_batch_idx' = ai_company_batch_idx - 1
       /\ IsDown /\ selection_idx = PageLast /\ ai_company_batch_idx = NumBatches - 1
            => UNCHANGED <<selection_idx, ai_company_batch_idx>>
       /\ IsUp /\ selection_idx = PageStart /\ ai_company_batch_idx = 0
            => UNCHANGED <<selection_idx, ai_company_batch_idx>>]_vars

\* C15 witness: the cursor has been taken to the last candidate of the last
\* page, where 'down' has nothing left to move to
C15_Witness ==
    /\ screen = "AI_PROMPT_COMPANIES"
    /\ ai_company_batch_idx = NumBatches - 1
    /\ selection_idx = Len(ai_companies) - 1

----------------------------------------------------------------------------
(* Properties of tab opening and fetching *)

\* the prefix of the current profile's URLs that tab_limit selects
OpenPrefix ==
    SubSeq(current_profile.urls, 1, Min(tab_limit, Len(current_profile.urls)))

\* C16: from the tab-opening screen and from the fetching screen the next
\* screen is the main menu, whatever the outcome of the work, and the step
\* has set a message.
C16_WorkScreensReturnToMenu ==
    [][(screen \in {"OPENING", "FETCHING"})
       => (screen' = "MAIN_MENU" /\ message' # <<>>)]_vars

\* C17: tab-opening with limit L over a profile of n URLs calls the open
\* action once for each of URLs[0..min(L, n) - 1], in list order, and for no
\* other URL, whichever calls fail.
C17_OpensExactlyThePrefix ==
    [][screen = "OPENING" => open_calls' = OpenPrefix]_vars

\* C18: whenever the session is on the tab-opening screen,
\* 1 <= tab_limit <= number of URLs of the current profile.
C18_TabLimitWithinCount ==
    screen = "OPENING"
    => 1 <= tab_limit /\ tab_limit <= Len(current_profile.urls)

\* C18 witness: the profile of eleven URLs is about to be opened with the
\* limit a typed 6000 was clamped to
C18_Witness ==
    /\ screen = "OPENING"
    /\ Len(current_profile.urls) = 11
    /\ tab_limit = 11

\* C19: a delay of v ms entered at the prompt, v >= 0, sets the delay to
\* v when v <= 5000 (0 included) and to 5000 when v > 5000.
C19_DelayClampedFromZero ==
    [][\A e1 \in NumberEntries, e2 \in NumberEntries :
          HandleOpenSettings(e1, e2) /\ e1 # BACK /\ e2 >= 0
          => delay' = Min(e2, MAX_DELAY_MS)]_vars

----------------------------------------------------------------------------
(* Properties of reading a URL list *)

\* the line is blank, a comment, or neither and rejected
IsBlankLine(raw) == Strip(raw) = <<>>
IsCommentLine(raw) == ~IsBlankLine(raw) /\ Head(Remove(Strip(raw), CR)) = "#"
IsMalformedLine(raw) ==
    ~IsBlankLine(raw) /\ ~IsCommentLine(raw) /\ normalize_url(raw) = None

\* the canonical URLs of the accepted lines, in file order
AcceptedUrls(lines) ==
    LET F[k \in 0..Len(lines)] ==
            IF k = 0 THEN <<>>
            ELSE IF normalize_url(lines[k]) = None THEN F[k - 1]
            ELSE Append(F[k - 1], normalize_url(lines[k]))
    IN F[Len(lines)]

\* C20: reading a URL list returns the canonical URLs of the accepted lines
\* in file order and a skipped count equal to the number of malformed
\* lines: blank lines and comment lines are not counted.
C20_SkippedCountsMalformedOnly ==
    \A p \in DOMAIN jobs_txt :
        LET lines == jobs_txt[p]
            r == read_urls(lines)
        IN /\ r.urls = AcceptedUrls(lines)
           /\ r.skipped = Cardinality({k \in 1..Len(lines) : IsMalformedLine(lines[k])})

----------------------------------------------------------------------------
\* C21: the URL normalizer is total and idempotent on its outputs: every
\* line of a list file maps to a canonical URL or to rejection, it never
\* raises, and normalizing a returned URL again returns it unchanged.
C21_NormalizerTotalIdempotent ==
    \A p \in DOMAIN jobs_txt : \A k \in 1..Len(jobs_txt[p]) :
        LET u == normalize_url(jobs_txt[p][k])
        IN /\ u # ValueError
           /\ u # None => normalize_url(u) = u

----------------------------------------------------------------------------
\* C22: the session message is one-shot: a message set by a handler is shown
\* by the next render and is empty after it, so a pending message always
\* waits for the render of a screen that shows messages and is never carried
\* past a render to a later screen.
C22_MessageShownByNextRender ==
    message # <<>> => ~rendered /\ screen \in {"MAIN_MENU", "PROFILE_SELECT"}

----------------------------------------------------------------------------
\* C23: when the fetch reports a failure (non-zero exit, no URL written,
\* timeout, exception) or the current profile has no search_specs.json, the
\* session sets a message, ends on the main menu and leaves the profiles as
\* they were; a profile changes during a fetch only when the fetch reported
\* success.
FetchFails ==
    \E outcome \in FetchOutcomes \ {"wrote"}, list \in FetchedLists :
        HandleFetching(outcome, list)

FetchRefused == HandleMainMenu("f") /\ ~current_profile.search_specs

----------------------------------------------------------------------------
(* Properties of the Pomodoro timer *)

\* the i-th phase of the rotation and the count of completed work phases in
\* it: odd positions are work phases, the break after the k-th work phase
\* of a cycle is short for k < cycle_size and long for k = cycle_size
ExpectedVisit(i) ==
    IF i % 2 = 1 THEN <<"WORK", ((i - 1) \div 2) % config.cycle_size>>
    ELSE LET k == (((i \div 2) - 1) % config.cycle_size) + 1 IN
         IF k = config.cycle_size THEN <<"LONG_BREAK", 0>> ELSE <<"SHORT_BREAK", k>>

\* C24: from the initial state, next_phase after next_phase, the phases
\* alternate WORK, break, WORK, break; the break after the k-th work phase
\* of a cycle is SHORT_BREAK for k < cycle_size and LONG_BREAK for
\* k = cycle_size; completed_in_cycle is k after the k-th work phase for
\* k < cycle_size and 0 at the long break and in the work phase after it.
C24_RotationByNextPhase ==
    \A i \in 1..Len(visited) : visited[i] = ExpectedVisit(i)

C24_Witness ==
    /\ config.cycle_size = 3
    /\ Len(visited) >= 7
    /\ visited[6] = <<"LONG_BREAK", 0>>
    /\ timer.phase = "WORK"
    /\ app_calls # <<>>

\* C25: tick on a PAUSED timer changes no state and returns False; tick on
\* a RUNNING timer with remaining r > 1 sets remaining to r - 1, leaves
\* phase, status and completed_in_cycle unchanged and returns False; tick on
\* a RUNNING timer with remaining 1 performs exactly one next_phase
\* transition and returns True.
C25_TickSemantics ==
    [][App_tick =>
        /\ (timer.status = "PAUSED") => (timer' = timer /\ ~tick_result')
        /\ (timer.status = "RUNNING" /\ timer.remaining > 1) =>
               /\ timer' = [timer EXCEPT !.remaining = timer.remaining - 1]
               /\ ~tick_result'
        /\ (timer.status = "RUNNING" /\ timer.remaining = 1) =>
               /\ tick_result'
               /\ timer'.phase # timer.phase
               /\ (timer.phase = "WORK") # (timer'.phase = "WORK")
               /\ timer'.remaining = get_duration_for_phase(timer'.phase)
               /\ app_calls' = <<<<timer.phase, timer'.phase>>>>]_vars

C25_Witness ==
    /\ tick_result
    /\ app_calls = <<<<"WORK", "SHORT_BREAK">>>>
    /\ timer.phase = "SHORT_BREAK"
    /\ timer.remaining = config.short_secs
    /\ ticks = 0

Running == timer.status = "RUNNING"

\* the phases of the rotation: there is no short break when cycle_size is 1
InRotation(ph) == ph # "SHORT_BREAK" \/ config.cycle_size > 1

\* C26: with auto_break and auto_work both on and the timer started,
\* repeated ticks keep the timer RUNNING, the phase changes exactly after as
\* many ticks as the duration of the current phase in seconds, the phases
\* are visited in the rotation order (for cycle_size 2: WORK, SHORT_BREAK,
\* WORK, LONG_BREAK, WORK), and every phase of the rotation is left and
\* reached again.
C26_AutoRotationByTicks ==
    /\ [][/\ Running => Running'
          /\ (timer'.phase # timer.phase) =>
                 (ticks + 1 = get_duration_for_phase(timer.phase))
          /\ (Running /\ App_tick /\ ticks + 1 = get_duration_for_phase(timer.phase)) =>
                 (timer'.phase # timer.phase)]_vars
    /\ [](\A i \in 1..Len(visited) : visited[i][1] = ExpectedVisit(i)[1])
    /\ \A ph \in Phases :
          /\ (Running /\ InRotation(ph)) ~> (timer.phase = ph)
          /\ (Running /\ timer.phase = ph) ~> (timer.phase # ph)

C26_Witness ==
    /\ config.cycle_size = 2
    /\ Running
    /\ tick_result
    /\ Len(visited) = 5
    /\ [i \in 1..5 |-> visited[i][1]] =
           <<"WORK", "SHORT_BREAK", "WORK", "LONG_BREAK", "WORK">>
    /\ timer.remaining = config.work_secs

\* a step in which next_phase ran: the n key, or a tick that reached zero
NextPhaseStep == action_next \/ (App_tick /\ tick_result')

\* the new phase starts by itself
AutoStarts(t) ==
    \/ t.phase = "WORK" /\ config.auto_work
    \/ t.phase # "WORK" /\ config.auto_break

\* C27: after every next_phase, manual or triggered by tick, whatever the
\* status was before, the status is RUNNING if and only if the new phase is
\* WORK and auto_work is on, or the new phase is a break and auto_break is
\* on; otherwise it is PAUSED.
C27_StatusAfterNextPhase ==
    [][NextPhaseStep =>
         (timer'.status = IF AutoStarts(timer') THEN "RUNNING" ELSE "PAUSED")]_vars

C27_Witness ==
    /\ config.auto_break /\ ~config.auto_work
    /\ ~tick_result
    /\ visited = <<<<"WORK", 0>>, <<"SHORT_BREAK", 1>>>>
    /\ app_calls = <<<<"WORK", "SHORT_BREAK">>>>
    /\ timer.status = "RUNNING"

\* C28: prev_phase always leaves the timer PAUSED with remaining equal to
\* the full duration of the new phase; from SHORT_BREAK or LONG_BREAK it
\* goes to WORK, from WORK to SHORT_BREAK when completed_in_cycle > 0 and to
\* LONG_BREAK when completed_in_cycle = 0; going back from SHORT_BREAK
\* takes one off completed_in_cycle.
C28_PrevPhase ==
    [][action_prev =>
        /\ timer'.status = "PAUSED"
        /\ timer'.remaining = get_duration_for_phase(timer'.phase)
        /\ (timer.phase # "WORK") => (timer'.phase = "WORK")
        /\ (timer.phase = "WORK" /\ timer.completed_in_cycle > 0) =>
               (timer'.phase = "SHORT_BREAK")
        /\ (timer.phase = "WORK" /\ timer.completed_in_cycle = 0) =>
               (timer'.phase = "LONG_BREAK")
        /\ (timer.phase = "SHORT_BREAK") =>
               (timer'.completed_in_cycle = timer.completed_in_cycle - 1)]_vars

\* back in the second work phase of a cycle of three, which only a step
\* back from the second short break gives with this count
C28_Witness ==
    /\ config.cycle_size = 3
    /\ visited = <<>>
    /\ timer = [phase |-> "WORK", status |-> "PAUSED",
                remaining |-> config.work_secs, completed_in_cycle |-> 1]
    /\ app_calls = <<>>
    /\ ticks = 0

\* C29: reset, in any phase and any status, sets remaining to the full
\* duration of the current phase and status to PAUSED, and leaves phase and
\* completed_in_cycle unchanged.
C29_Reset ==
    [][action_reset =>
        /\ timer'.remaining = get_duration_for_phase(timer.phase)
        /\ timer'.status = "PAUSED"
        /\ timer'.phase = timer.phase
        /\ timer'.completed_in_cycle = timer.completed_in_cycle]_vars

\* a long break that started by itself, paused at its full duration
C29_Witness ==
    /\ config.auto_break
    /\ tick_result
    /\ visited # <<>>
    /\ timer.phase = "LONG_BREAK"
    /\ timer.status = "PAUSED"
    /\ timer.remaining = config.long_secs
    /\ ticks = 0
    /\ app_calls = <<>>

\* C30: every phase transition performed by next_phase, called directly or
\* through a tick that reaches zero, invokes the on_phase_complete callback
\* exactly once with (old phase, new phase); prev_phase, reset, start,
\* pause, toggle and a tick that does not complete a phase never invoke it.
C30_CallbackOncePerTransition ==
    [][/\ NextPhaseStep =>
            /\ app_calls' = <<<<timer.phase, timer'.phase>>>>
            /\ config.on_phase_complete =>
                   (phase_complete_calls' = <<<<timer.phase, timer'.phase>>>>)
       /\ (\/ action_prev \/ action_reset \/ CallStart \/ CallPause \/ action_toggle
           \/ (App_tick /\ ~tick_result')) =>
            (app_calls' = <<>> /\ phase_complete_calls' = <<>>)]_vars

C30_Witness ==
    /\ config.on_phase_complete
    /\ tick_result
    /\ phase_complete_calls = <<<<"WORK", "LONG_BREAK">>>>
    /\ app_calls = <<<<"WORK", "LONG_BREAK">>>>
    /\ timer.phase = "LONG_BREAK"
    /\ timer.remaining = config.long_secs

\* the number, within its cycle, of the work phase the i-th phase of the
\* rotation is (odd i) or follows (even i)
WorkNumber(i) ==
    IF i % 2 = 1 THEN (((i - 1) \div 2) % config.cycle_size) + 1
    ELSE (((i \div 2) - 1) % config.cycle_size) + 1

\* C31: cycle_display is "k/cycle_size": during the k-th work phase of a
\* cycle k is completed_in_cycle + 1, and during the break that follows the
\* k-th work phase it shows k, for short breaks and for the long break.
C31_CycleDisplay ==
    visited # <<>> =>
        LET k == WorkNumber(Len(visited)) IN
        /\ cycle_display(timer) = DecStr(k) \o <<"/">> \o DecStr(config.cycle_size)
        /\ (timer.phase = "WORK") => (k = timer.completed_in_cycle + 1)

----------------------------------------------------------------------------
(* Further properties of the validation run *)

\* the thread w classifies its URL in this step: as valid with the final
\* URL of the response, or as failed with the URL it requested
ClassifiesValid(w) ==
    /\ workers'[w].validated = Append(workers[w].validated, FinalUrl(workers[w].url))
    /\ workers'[w].failed = workers[w].failed

ClassifiesFailed(w) ==
    /\ workers'[w].failed = Append(workers[w].failed, workers[w].url)
    /\ workers'[w].validated = workers[w].validated

\* C32: for each URL the GET is issued if and only if the HEAD returned a
\* status of 400 or more or the HEAD was unsupported or blocked, so a URL is
\* classified straight after its HEAD, without a GET, only by a HEAD
\* response below 400, and then as valid; after the GET it is valid with
\* the final URL of the response if the status is below 400 and failed with
\* the requested URL otherwise.
C32_GetAfterHeadFailure ==
    [][\A w \in Workers :
        /\ (workers[w].pc = "head" /\ workers'[w].pc = "inc_completed") =>
               ClassifiesValid(w)
        /\ (workers[w].pc = "get" /\ workers'[w].pc # "get") =>
               /\ workers'[w].pc = "inc_completed"
               /\ ClassifiesValid(w) \/ ClassifiesFailed(w)]_vars

\* C33: while validation_status is "running" the session cannot leave the
\* validating screen: the only key with an effect is 'c', so screen,
\* profile_idx and the URL list of every profile stay as they are; hence
\* whenever the screen is not the validating screen the status is not
\* "running".
C33_RunningKeepsValidatingScreen ==
    /\ [](screen # "VALIDATING" => validation_status # "running")
    /\ [][validation_status = "running" =>
             /\ screen' = screen
             /\ profile_idx' = profile_idx
             /\ profiles' = profiles
             /\ \A key \in SessionKeys \ {"c"} :
                    HandleValidating(key) => UNCHANGED valVars]_vars

C33_Witness ==
    /\ screen = "VALIDATING"
    /\ validation_status = "running"
    /\ validation_cancel
    /\ validation_completed > 0

WorkerAlive(w) == w \in Workers /\ workers[w].pc # "finished"

WorkerExited(w) == w \in Workers /\ workers[w].pc = "finished"

\* C34: when every probe returns and every file write returns or raises,
\* every started validation run reaches a terminal status (done, cancelled
\* or error) and its thread exits: the status never stays "running", with
\* or without a cancel request.
C34_RunTerminates ==
    /\ (validation_status = "running") ~>
           (validation_status \in {"done", "cancelled", "error"})
    /\ \A w \in 1..MaxRuns : WorkerAlive(w) ~> WorkerExited(w)

C34_Witness ==
    /\ Len(workers) = MaxRuns
    /\ \A w \in Workers : workers[w].pc = "finished"
    /\ validation_status = "cancelled"

\* a step of start_validation: one more thread exists
RunStarted == Len(workers') = Len(workers) + 1

\* C35: a cancel request never reaches a later run.  A step that starts a
\* run leaves the cancel flag clear, the status "running", the three
\* counters 0 and the total at the number of URLs of the profile, with the
\* new thread not yet started; and the status is "cancelled" only if 'c' was
\* pressed since the latest run was started, set by the thread of that run
C35_CancelStaysInItsRun ==
    [][/\ RunStarted =>
            /\ ~validation_cancel'
            /\ validation_status' = "running"
            /\ validation_completed' = 0
            /\ validation_valid' = 0
            /\ validation_failed' = 0
            /\ validation_total' = Len(profiles[profile_idx].urls)
            /\ workers'[Len(workers')].pc = "begin"
            /\ workers'[Len(workers')].cancel_at = -1
       /\ validation_status' = "cancelled" =>
            workers'[Len(workers')].cancel_at # -1
       /\ validation_status' = "cancelled" /\ validation_status # "cancelled" =>
            /\ ~RunStarted
            /\ validation_cancel
            /\ workers[Len(workers)].pc = "loop"
            /\ workers'[Len(workers')].pc = "finished"]_vars

\* the second run of the session was cancelled after its first URL, the
\* cancel flag having been cleared when it started
C35_Witness ==
    /\ Len(workers) = MaxRuns
    /\ MaxRuns > 1
    /\ validation_status = "cancelled"
    /\ workers[Len(workers)].cancel_at >= 1

\* C36: a cancelled run has left at least one URL unprocessed, and a run
\* that is done has processed and classified every URL
C36_CountersAtTerminalStatus ==
    /\ validation_status = "cancelled" => validation_completed < validation_total
    /\ validation_status = "done" =>
            /\ validation_completed = validation_total
            /\ validation_valid + validation_failed = validation_total

\* a run cancelled while its last URL was still to be processed
C36_Witness ==
    /\ validation_status = "cancelled"
    /\ validation_completed >= 1
    /\ validation_completed + 1 = validation_total

\* a run that is done with both a valid and a failed URL
C36_WitnessDone ==
    /\ validation_status = "done"
    /\ validation_valid >= 1
    /\ validation_failed >= 1

\* the thread of the latest run
LatestWorker == workers[Len(workers)]

\* C37: whenever the status is "error", validation_error holds the message
\* of the exception that ended the latest run, and validation_error is
\* written only by start_validation and by the thread of the latest run
C37_ErrorMessageInStep ==
    [][/\ validation_status' = "error" =>
            validation_error' = workers'[Len(workers')].exc
       /\ validation_error' # validation_error /\ ~RunStarted =>
            LatestWorker.pc = "set_error_msg"]_vars

\* what does hold: in the first run of a session, once its thread has
\* exited, an "error" status comes with the message of that run
C37_MessageOnceThreadExited ==
    (/\ validation_status = "error"
     /\ Len(workers) = 1
     /\ LatestWorker.pc = "finished")
        => validation_error = LatestWorker.exc

(* Further properties of the company selection *)

\* the cursor is on a candidate of the displayed page
CursorOnPage == PageStart <= selection_idx /\ selection_idx <= PageLast

\* C38: whenever the company-selection screen is shown, the cursor lies
\* inside the displayed batch: batch_idx * 10 <= selection_idx <
\* min((batch_idx + 1) * 10, total_candidates)
C38_CursorInDisplayedBatch ==
    screen = "AI_PROMPT_COMPANIES"
    => /\ ai_company_batch_idx * COMPANY_BATCH_SIZE <= selection_idx
       /\ selection_idx < Min((ai_company_batch_idx + 1) * COMPANY_BATCH_SIZE,
                              Len(ai_companies))

\* what does hold: a key handled on the screen with the cursor on the
\* displayed page leaves it on the displayed page
C38_KeysKeepCursorOnPage ==
    [][(/\ screen = "AI_PROMPT_COMPANIES"
        /\ screen' = "AI_PROMPT_COMPANIES"
        /\ CursorOnPage) => CursorOnPage']_vars

(* Further properties of the Pomodoro timer *)

\* C39: for cycle_size >= 1, after any sequence of start, pause, toggle,
\* reset, tick, next_phase and prev_phase, 0 <= completed_in_cycle <
\* cycle_size, a long break has completed_in_cycle = 0 and a short break
\* has completed_in_cycle >= 1
C39_CycleCountInvariants ==
    /\ config.cycle_size >= 1
    /\ 0 <= timer.completed_in_cycle
    /\ timer.completed_in_cycle < config.cycle_size
    /\ timer.phase = "LONG_BREAK" => timer.completed_in_cycle = 0
    /\ timer.phase = "SHORT_BREAK" => timer.completed_in_cycle >= 1

\* the last short break of a cycle of three, reached backwards from the
\* start through the long break of the cycle before
C39_Witness ==
    /\ config.cycle_size = 3
    /\ visited = <<>>
    /\ timer.phase = "SHORT_BREAK"
    /\ timer.completed_in_cycle = 2

\* the part of a timer state the round trip is about
PhaseAndCount(t) == <<t.phase, t.completed_in_cycle>>

\* C40: from every reachable timer state, next_phase followed by
\* prev_phase restores (phase, completed_in_cycle), and so does prev_phase
\* followed by next_phase
C40_NextPrevRoundTrip ==
    [][/\ PhaseAndCount(prev_phase(next_phase(timer).timer)) = PhaseAndCount(timer)
       /\ PhaseAndCount(next_phase(prev_phase(timer)).timer) = PhaseAndCount(timer)
       /\ action_next => PhaseAndCount(prev_phase(timer')) = PhaseAndCount(timer)
       /\ action_prev => PhaseAndCount(next_phase(timer').timer) = PhaseAndCount(timer)]_vars

\* the last work phase of a cycle of three, entered backwards from the
\* long break: the round trip forwards goes through the end of the cycle
C40_Witness ==
    /\ config.cycle_size = 3
    /\ visited = <<>>
    /\ app_calls = <<>>
    /\ timer.phase = "WORK"
    /\ timer.completed_in_cycle = 2
    /\ next_phase(timer).timer.phase = "LONG_BREAK"
    /\ PhaseAndCount(prev_phase(next_phase(timer).timer)) = PhaseAndCount(timer)

====
